---- MODULE Spec2Model ----
(***************************************************************************)
(* The deterministic Tamil/Tanglish order parser of Ai-Nuto:               *)
(* parseOrderWithFuzzyMap and its helpers, in the two copies the           *)
(* repository holds (controllers/billController.js, utils/similarity.js).  *)
(*                                                                         *)
(* A JavaScript string is modelled as the sequence of its UTF-16 code      *)
(* units, so lengths, offsets and the fixed-size windows of the code       *)
(* count what the code counts.  Offsets are 0-based as in the code: the    *)
(* character at offset p of s is s[p + 1].                                 *)
(***************************************************************************)
EXTENDS Integers, Sequences, FiniteSets, TLC

VARIABLES
  variant,      \* which copy of the parser runs: "bill" or "sim"
  input,        \* voiceInputText, a tagged JavaScript value
  menuItems,    \* the catalog handed to the call
  pc,           \* position of the call: "start", "exec", "body", "emit", "done"
  text,         \* const text = preprocessText(voiceInputText)
  aliasIdx,     \* index of the alias the outer for loop is at
  patIdx,       \* index of the pattern the inner for loop is at
  lastIndex,    \* regex.lastIndex of the current global regex
  match,        \* the match regex.exec returned: [index, end]
  usedRanges,   \* the consumed quantity spans, in push order
  orderMap,     \* Map aliasKey -> quantity, as a sequence in insertion order
  emitIdx,      \* number of orderMap entries the second loop has handled
  items,        \* the order lines pushed so far
  lastQty,      \* what the latest detectQuantityNear call returned
  counted,      \* how many matches this call has counted (orderMap.set calls)
  order,        \* the order the customer means: the mentions the input is made of
  prev,         \* the previous completed call of this process, or NoCall
  requests,     \* the generateBillFromVoice requests: body, position, response
  LLM_CACHE,    \* Map cache key -> parsed, as a sequence in insertion order
  BILLS,        \* the bills kept in memory, newest first
  llmCalls,     \* the keys model.generateContent was called for, in call order
  genAI,        \* whether GEMINI_API_KEY was set when the process started
  generic       \* the generateGenericBill request: body, position, response

vars == <<variant, input, order, menuItems, pc, text, aliasIdx, patIdx, lastIndex,
          match, usedRanges, orderMap, emitIdx, items, lastQty, counted, prev,
          requests, LLM_CACHE, BILLS, llmCalls, genAI, generic>>

\* The state of the two request handlers.
server == <<requests, LLM_CACHE, BILLS, llmCalls, genAI, generic>>

----------------------------------------------------------------------------
(* Characters and character classes of JavaScript regular expressions.     *)

\* Code units: U+0000 .. U+FFFF.
CodeUnit == 0 .. 65535

\* \s of a JavaScript regular expression (WhiteSpace and LineTerminator).
WhiteSpace ==
  {9, 10, 11, 12, 13, 32, 160, 5760, 8232, 8233, 8239, 8287, 12288, 65279}
    \cup (8192 .. 8202)

\* \d.
Digit == 48 .. 57

\* The characters "." matches: everything but the line terminators.
AnyChar == CodeUnit \ {10, 13, 8232, 8233}

\* \w, the word characters \b is defined by.
WordChar == (48 .. 57) \cup (65 .. 90) \cup (97 .. 122) \cup {95}

\* Case canonicalisation of the "i" flag and of String.prototype.toLowerCase
\* on the letters the tables use: A-Z fold to a-z, every other character of
\* the model's alphabet is its own lower case.
Fold(c) == IF c \in 65 .. 90 THEN c + 32 ELSE c

toLowerCase(s) == [i \in 1 .. Len(s) |-> Fold(s[i])]

----------------------------------------------------------------------------
(* Regular expressions.  A pattern is a sequence of nodes; matching is the *)
(* backtracking search of the JavaScript engine: alternatives in order,    *)
(* quantifiers greedy, the first way to match the whole pattern wins.      *)

Lit(c) == [t |-> "lit", c |-> c]                  \* literal characters
Alt(a) == [t |-> "alt", a |-> a]                  \* (x|y|z)
Opt(r) == [t |-> "opt", r |-> r]                  \* (x)?
Rep(set, lo, hi) == [t |-> "rep", set |-> set, lo |-> lo, hi |-> hi]
Plus(r) == Rep({r[1].c[1]}, 1, -1)                \* c+ of a single character
AnyUpTo(n) == Rep(AnyChar, 0, n)                  \* .{0,n}
Ws == Rep(WhiteSpace, 0, -1)                      \* \s*
Digits == Rep(Digit, 1, -1)                       \* \d+
Wb == [t |-> "wb"]                                \* \b
Bos == [t |-> "bos"]                              \* ^
Eos == [t |-> "eos"]                              \* $

\* The literal c stands at offset pos of s (case-insensitively).
LitAt(c, s, pos) ==
  /\ pos + Len(c) <= Len(s)
  /\ \A i \in 1 .. Len(c) : Fold(s[pos + i]) = Fold(c[i])

\* Length of the run of characters of set at offset pos, at most max
\* (max < 0: unbounded).
RECURSIVE RunLen(_, _, _, _)
RunLen(set, s, pos, max) ==
  IF max = 0 \/ pos >= Len(s) THEN 0
  ELSE IF s[pos + 1] \in set THEN 1 + RunLen(set, s, pos + 1, max - 1)
  ELSE 0

\* \b holds at offset pos.
AtWordBoundary(s, pos) ==
  LET before == pos > 0 /\ s[pos] \in WordChar
      after  == pos < Len(s) /\ s[pos + 1] \in WordChar
  IN  before # after

\* MatchSeq(es, s, pos): the offset where the match of the node sequence es
\* that starts at offset pos ends, or -1 when there is none.
RECURSIVE MatchSeq(_, _, _), TryAlts(_, _, _, _, _), TryReps(_, _, _, _, _)
MatchSeq(es, s, pos) ==
  IF Len(es) = 0 THEN pos
  ELSE
    LET e == Head(es)
        rest == Tail(es)
    IN  CASE e.t = "lit" ->
               IF LitAt(e.c, s, pos) THEN MatchSeq(rest, s, pos + Len(e.c)) ELSE -1
          [] e.t = "alt" -> TryAlts(e.a, 1, rest, s, pos)
          [] e.t = "opt" ->
               LET r == MatchSeq(e.r \o rest, s, pos)
               IN  IF r >= 0 THEN r ELSE MatchSeq(rest, s, pos)
          [] e.t = "rep" ->
               LET n == RunLen(e.set, s, pos, e.hi)
               IN  IF n < e.lo THEN -1 ELSE TryReps(rest, s, pos, n, e.lo)
          [] e.t = "wb" -> IF AtWordBoundary(s, pos) THEN MatchSeq(rest, s, pos) ELSE -1
          [] e.t = "bos" -> IF pos = 0 THEN MatchSeq(rest, s, pos) ELSE -1
          [] e.t = "eos" -> IF pos = Len(s) THEN MatchSeq(rest, s, pos) ELSE -1

\* The alternatives a[i], a[i+1], ... in order, each followed by rest.
TryAlts(a, i, rest, s, pos) ==
  IF i > Len(a) THEN -1
  ELSE LET r == MatchSeq(a[i] \o rest, s, pos)
       IN  IF r >= 0 THEN r ELSE TryAlts(a, i + 1, rest, s, pos)

\* A greedy repetition that may take k, k-1, ..., lo characters.
TryReps(rest, s, pos, k, lo) ==
  IF k < lo THEN -1
  ELSE LET r == MatchSeq(rest, s, pos + k)
       IN  IF r >= 0 THEN r ELSE TryReps(rest, s, pos, k - 1, lo)

\* The pattern can match the empty string at its start: no node of it needs a
\* character.
RECURSIVE Nullable(_)
Nullable(es) ==
  IF Len(es) = 0 THEN TRUE
  ELSE LET e == Head(es)
       IN  /\ CASE e.t = "lit" -> Len(e.c) = 0
                [] e.t = "alt" -> \E i \in DOMAIN e.a : Nullable(e.a[i])
                [] e.t = "rep" -> e.lo = 0
                [] OTHER -> TRUE
           /\ Nullable(Tail(es))

\* The (case-folded) characters a non-empty match of the pattern can start
\* with.
RECURSIVE FirstChars(_)
FirstChars(es) ==
  IF Len(es) = 0 THEN {}
  ELSE LET e == Head(es)
           own == CASE e.t = "lit" -> IF Len(e.c) = 0 THEN {} ELSE {Fold(e.c[1])}
                    [] e.t = "alt" -> UNION { FirstChars(e.a[i]) : i \in DOMAIN e.a }
                    [] e.t = "opt" -> FirstChars(e.r)
                    [] e.t = "rep" -> e.set
                    [] OTHER -> {}
       IN  IF Nullable(<<e>>) THEN own \cup FirstChars(Tail(es)) ELSE own

\* A compiled regular expression: its nodes, and where a match can start.
Regex(nodes) ==
  [nodes |-> nodes, nullable |-> Nullable(nodes), first |-> FirstChars(nodes)]

\* What String.prototype.match and RegExp.prototype.exec return.
NoMatch == [index |-> -1, end |-> -1]

\* The offsets from offset from on where a match of re can start.
Candidates(re, s, from) ==
  IF re.nullable THEN from .. Len(s)
  ELSE { i \in from .. Len(s) - 1 : Fold(s[i + 1]) \in re.first }

\* The leftmost match, given for every candidate offset where the match
\* that starts there ends (-1: none starts there).
Leftmost(ends) ==
  LET hits == { i \in DOMAIN ends : ends[i] >= 0 }
      first == CHOOSE i \in hits : \A j \in hits : i <= j
  IN  IF hits = {} THEN NoMatch ELSE [index |-> first, end |-> ends[first]]

\* The leftmost match of re in s that starts at offset from or later.
Search(re, s, from) ==
  Leftmost([i \in Candidates(re, s, from) |-> MatchSeq(re.nodes, s, i)])

\* RegExp.prototype.test of a regex without the g flag.
Test(re, s) == Search(re, s, 0).index >= 0

\* String.prototype.slice(from, to) with 0 <= from, to <= Len(s).
slice(s, from, to) == IF to <= from THEN <<>> ELSE SubSeq(s, from + 1, to)

----------------------------------------------------------------------------
(* The static tables of the parser.                                        *)

\* The number-word lexicon, in the insertion order of the Map (words as
\* UTF-16 code units): \u0B93\u0BB0\u0BCD=1, \u0B92\u0BB0\u0BC1=1, \u0B87\u0BB0\u0BA3\u0BCD\u0B9F\u0BC1=2, \u0BB0\u0BC6\u0BA3\u0BCD\u0B9F\u0BC1=2, ...
TAMIL_NUMBER_MAP ==
  << [word |-> <<2963, 2992, 3021>>, value |-> 1],
     [word |-> <<2962, 2992, 3009>>, value |-> 1],
     [word |-> <<2951, 2992, 2979, 3021, 2975, 3009>>, value |-> 2],
     [word |-> <<2992, 3014, 2979, 3021, 2975, 3009>>, value |-> 2],
     [word |-> <<2990, 3010, 2985, 3021, 2993, 3009>>, value |-> 3],
     [word |-> <<2990, 3010, 2979, 3009>>, value |-> 3],
     [word |-> <<2984, 3006, 2985, 3021, 2965, 3009>>, value |-> 4],
     [word |-> <<2984, 3006, 2994, 3009>>, value |-> 4],
     [word |-> <<2960, 2984, 3021, 2980, 3009>>, value |-> 5],
     [word |-> <<2950, 2993, 3009>>, value |-> 6],
     [word |-> <<2950, 2992, 3009>>, value |-> 6],
     [word |-> <<2959, 2996, 3009>>, value |-> 7],
     [word |-> <<2958, 2975, 3021, 2975, 3009>>, value |-> 8],
     [word |-> <<2962, 2985, 3021, 2986, 2980, 3009>>, value |-> 9],
     [word |-> <<2986, 2980, 3021, 2980, 3009>>, value |-> 10] >>

\* The alias key "Veg Kothu Parotta".
KeyVegKothuParotta ==
  <<86, 101, 103, 32, 75, 111, 116, 104, 117, 32, 80, 97, 114, 111, 116, 116, 97>>

\* The alias key "Egg Kothu Parotta".
KeyEggKothuParotta ==
  <<69, 103, 103, 32, 75, 111, 116, 104, 117, 32, 80, 97, 114, 111, 116, 116, 97>>

\* The alias key "Chicken Kothu Parotta".
KeyChickenKothuParotta ==
  <<67, 104, 105, 99, 107, 101, 110, 32, 75, 111, 116, 104, 117, 32, 80, 97, 114, 111, 116, 116, 97>>

\* The alias key "Set Dosa (1 pcs)".
KeySetDosa1Pcs ==
  <<83, 101, 116, 32, 68, 111, 115, 97, 32, 40, 49, 32, 112, 99, 115, 41>>

\* The alias key "Ghee Dosa".
KeyGheeDosa ==
  <<71, 104, 101, 101, 32, 68, 111, 115, 97>>

\* The alias key "Masala Dosa".
KeyMasalaDosa ==
  <<77, 97, 115, 97, 108, 97, 32, 68, 111, 115, 97>>

\* The alias key "Egg Dosa".
KeyEggDosa ==
  <<69, 103, 103, 32, 68, 111, 115, 97>>

\* The alias key "Plain Dosa".
KeyPlainDosa ==
  <<80, 108, 97, 105, 110, 32, 68, 111, 115, 97>>

\* The alias key "Parotta (2 pcs)".
KeyParotta2Pcs ==
  <<80, 97, 114, 111, 116, 116, 97, 32, 40, 50, 32, 112, 99, 115, 41>>

\* The alias key "Egg Parotta".
KeyEggParotta ==
  <<69, 103, 103, 32, 80, 97, 114, 111, 116, 116, 97>>

\* The alias key "Kalakki".
KeyKalakki ==
  <<75, 97, 108, 97, 107, 107, 105>>

\* The alias key "Omelette".
KeyOmelette ==
  <<79, 109, 101, 108, 101, 116, 116, 101>>

\* The alias key "Idly (4 pcs)".
KeyIdly4Pcs ==
  <<73, 100, 108, 121, 32, 40, 52, 32, 112, 99, 115, 41>>

\* The alias key "Chicken Biryani".
KeyChickenBiryani ==
  <<67, 104, 105, 99, 107, 101, 110, 32, 66, 105, 114, 121, 97, 110, 105>>

\* The alias key "Tea".
KeyTea ==
  <<84, 101, 97>>

\* The alias key "Curd Rice".
KeyCurdRice ==
  <<67, 117, 114, 100, 32, 82, 105, 99, 101>>

\* The alias pattern table of utils/similarity.js, in Map order.
SynonymPatternsSim ==
  <<
     \* Veg Kothu Parotta
     \*   /(\u0B95\u0BCA\u0BA4\u0BCD\u0BA4\u0BC1|\u0B95\u0BC1\u0BA4\u0BCD\u0BA4\u0BC1|\u0B95\u0BCB\u0BA4\u0BCD\u0BA4\u0BC1|\u0B95\u0BCA\u0BA4\u0BCD\u0BA4)\s*\u0BAA\u0BB0\u0BCB\u0B9F\u0BCD\u0B9F\u0BBE/iu
     \*   /kothu\s*parotta/iu
     \*   /kothu\s*parota/iu
     \*   /kuthu\s*parotta/iu
     \*   /kothu\s*barotta/iu
     \*   /kothu\s*porotta/iu
     [key |-> KeyVegKothuParotta,
      pats |-> << Regex(<<Alt(<<<<Lit(<<2965, 3018, 2980, 3021, 2980, 3009>>)>>, <<Lit(<<2965, 3009, 2980, 3021, 2980, 3009>>)>>, <<Lit(<<2965, 3019, 2980, 3021, 2980, 3009>>)>>, <<Lit(<<2965, 3018, 2980, 3021, 2980>>)>>>>), Ws, Lit(<<2986, 2992, 3019, 2975, 3021, 2975, 3006>>)>>),
                 Regex(<<Lit(<<107, 111, 116, 104, 117>>), Ws, Lit(<<112, 97, 114, 111, 116, 116, 97>>)>>),
                 Regex(<<Lit(<<107, 111, 116, 104, 117>>), Ws, Lit(<<112, 97, 114, 111, 116, 97>>)>>),
                 Regex(<<Lit(<<107, 117, 116, 104, 117>>), Ws, Lit(<<112, 97, 114, 111, 116, 116, 97>>)>>),
                 Regex(<<Lit(<<107, 111, 116, 104, 117>>), Ws, Lit(<<98, 97, 114, 111, 116, 116, 97>>)>>),
                 Regex(<<Lit(<<107, 111, 116, 104, 117>>), Ws, Lit(<<112, 111, 114, 111, 116, 116, 97>>)>>) >>],
     \* Egg Kothu Parotta
     \*   /\u0BAE\u0BC1\u0B9F\u0BCD\u0B9F\u0BC8\s*(\u0B95\u0BCA\u0BA4\u0BCD\u0BA4\u0BC1|\u0B95\u0BC1\u0BA4\u0BCD\u0BA4\u0BC1|\u0B95\u0BCB\u0BA4\u0BCD\u0BA4\u0BC1|\u0B95\u0BCA\u0BA4\u0BCD\u0BA4)\s*(\u0BAA\u0BB0\u0BCB\u0B9F\u0BCD\u0B9F\u0BBE)?/iu
     \*   /((\u0B8F|\u0B8E)\u0B95\u0BCD|\u0B8E\u0B95|\u0B8F\u0B95\u0BCD\u0B95)\s*(\u0B95\u0BCA\u0BA4\u0BCD\u0BA4\u0BC1|\u0B95\u0BC1\u0BA4\u0BCD\u0BA4\u0BC1|\u0B95\u0BCB\u0BA4\u0BCD\u0BA4\u0BC1|\u0B95\u0BCA\u0BA4\u0BCD\u0BA4)\s*(\u0BAA\u0BB0\u0BCB\u0B9F\u0BCD\u0B9F\u0BBE)?/iu
     \*   /\u0B85\u0BA3\u0BCD\u0B9F(\u0BC1)?\s*(\u0B95\u0BCA\u0BA4\u0BCD\u0BA4\u0BC1|\u0B95\u0BC1\u0BA4\u0BCD\u0BA4\u0BC1|\u0B95\u0BCB\u0BA4\u0BCD\u0BA4\u0BC1|\u0B95\u0BCA\u0BA4\u0BCD\u0BA4)\s*(\u0BAA\u0BB0\u0BCB\u0B9F\u0BCD\u0B9F\u0BBE)?/iu
     \*   /egg\s*(kothu|kuthu|koththu)\s*(parotta|parota|porotta|barotta)?/iu
     [key |-> KeyEggKothuParotta,
      pats |-> << Regex(<<Lit(<<2990, 3009, 2975, 3021, 2975, 3016>>), Ws, Alt(<<<<Lit(<<2965, 3018, 2980, 3021, 2980, 3009>>)>>, <<Lit(<<2965, 3009, 2980, 3021, 2980, 3009>>)>>, <<Lit(<<2965, 3019, 2980, 3021, 2980, 3009>>)>>, <<Lit(<<2965, 3018, 2980, 3021, 2980>>)>>>>), Ws, Opt(<<Lit(<<2986, 2992, 3019, 2975, 3021, 2975, 3006>>)>>)>>),
                 Regex(<<Alt(<<<<Alt(<<<<Lit(<<2959>>)>>, <<Lit(<<2958>>)>>>>), Lit(<<2965, 3021>>)>>, <<Lit(<<2958, 2965>>)>>, <<Lit(<<2959, 2965, 3021, 2965>>)>>>>), Ws, Alt(<<<<Lit(<<2965, 3018, 2980, 3021, 2980, 3009>>)>>, <<Lit(<<2965, 3009, 2980, 3021, 2980, 3009>>)>>, <<Lit(<<2965, 3019, 2980, 3021, 2980, 3009>>)>>, <<Lit(<<2965, 3018, 2980, 3021, 2980>>)>>>>), Ws, Opt(<<Lit(<<2986, 2992, 3019, 2975, 3021, 2975, 3006>>)>>)>>),
                 Regex(<<Lit(<<2949, 2979, 3021, 2975>>), Opt(<<Lit(<<3009>>)>>), Ws, Alt(<<<<Lit(<<2965, 3018, 2980, 3021, 2980, 3009>>)>>, <<Lit(<<2965, 3009, 2980, 3021, 2980, 3009>>)>>, <<Lit(<<2965, 3019, 2980, 3021, 2980, 3009>>)>>, <<Lit(<<2965, 3018, 2980, 3021, 2980>>)>>>>), Ws, Opt(<<Lit(<<2986, 2992, 3019, 2975, 3021, 2975, 3006>>)>>)>>),
                 Regex(<<Lit(<<101, 103, 103>>), Ws, Alt(<<<<Lit(<<107, 111, 116, 104, 117>>)>>, <<Lit(<<107, 117, 116, 104, 117>>)>>, <<Lit(<<107, 111, 116, 104, 116, 104, 117>>)>>>>), Ws, Opt(<<Alt(<<<<Lit(<<112, 97, 114, 111, 116, 116, 97>>)>>, <<Lit(<<112, 97, 114, 111, 116, 97>>)>>, <<Lit(<<112, 111, 114, 111, 116, 116, 97>>)>>, <<Lit(<<98, 97, 114, 111, 116, 116, 97>>)>>>>)>>)>>) >>],
     \* Chicken Kothu Parotta
     \*   /\u0B9A\u0BBF\u0B95\u0BCD\u0B95\u0BA9\u0BCD\s*(\u0B95\u0BCA\u0BA4\u0BCD\u0BA4\u0BC1|\u0B95\u0BC1\u0BA4\u0BCD\u0BA4\u0BC1|\u0B95\u0BCB\u0BA4\u0BCD\u0BA4\u0BC1|\u0B95\u0BCA\u0BA4\u0BCD\u0BA4)\s*(\u0BAA\u0BB0\u0BCB\u0B9F\u0BCD\u0B9F\u0BBE)?/iu
     \*   /chicken\s*(kothu|kuthu|koththu)\s*(parotta|parota|porotta|barotta)?/iu
     [key |-> KeyChickenKothuParotta,
      pats |-> << Regex(<<Lit(<<2970, 3007, 2965, 3021, 2965, 2985, 3021>>), Ws, Alt(<<<<Lit(<<2965, 3018, 2980, 3021, 2980, 3009>>)>>, <<Lit(<<2965, 3009, 2980, 3021, 2980, 3009>>)>>, <<Lit(<<2965, 3019, 2980, 3021, 2980, 3009>>)>>, <<Lit(<<2965, 3018, 2980, 3021, 2980>>)>>>>), Ws, Opt(<<Lit(<<2986, 2992, 3019, 2975, 3021, 2975, 3006>>)>>)>>),
                 Regex(<<Lit(<<99, 104, 105, 99, 107, 101, 110>>), Ws, Alt(<<<<Lit(<<107, 111, 116, 104, 117>>)>>, <<Lit(<<107, 117, 116, 104, 117>>)>>, <<Lit(<<107, 111, 116, 104, 116, 104, 117>>)>>>>), Ws, Opt(<<Alt(<<<<Lit(<<112, 97, 114, 111, 116, 116, 97>>)>>, <<Lit(<<112, 97, 114, 111, 116, 97>>)>>, <<Lit(<<112, 111, 114, 111, 116, 116, 97>>)>>, <<Lit(<<98, 97, 114, 111, 116, 116, 97>>)>>>>)>>)>>) >>],
     \* Set Dosa (1 pcs)
     \*   /\u0B9A\u0BC6\u0B9F\u0BCD\s*\u0BA4\u0BCB\u0B9A\u0BC8/iu
     \*   /set\s*dosa/iu
     \*   /set\s*dosai/iu
     [key |-> KeySetDosa1Pcs,
      pats |-> << Regex(<<Lit(<<2970, 3014, 2975, 3021>>), Ws, Lit(<<2980, 3019, 2970, 3016>>)>>),
                 Regex(<<Lit(<<115, 101, 116>>), Ws, Lit(<<100, 111, 115, 97>>)>>),
                 Regex(<<Lit(<<115, 101, 116>>), Ws, Lit(<<100, 111, 115, 97, 105>>)>>) >>],
     \* Ghee Dosa
     \*   /\u0BA8\u0BC6\u0BAF\u0BCD\s*\u0BA4\u0BCB\u0B9A\u0BC8/iu
     \*   /ghee\s*dosa/iu
     [key |-> KeyGheeDosa,
      pats |-> << Regex(<<Lit(<<2984, 3014, 2991, 3021>>), Ws, Lit(<<2980, 3019, 2970, 3016>>)>>),
                 Regex(<<Lit(<<103, 104, 101, 101>>), Ws, Lit(<<100, 111, 115, 97>>)>>) >>],
     \* Masala Dosa
     \*   /\u0BAE\u0B9A\u0BBE(\u0BB2|\u0BB2\u0BCD)\u0BBE\s*\u0BA4\u0BCB\u0B9A\u0BC8/iu
     \*   /masala\s*dosa/iu
     \*   /m\s*dosa/iu
     [key |-> KeyMasalaDosa,
      pats |-> << Regex(<<Lit(<<2990, 2970, 3006>>), Alt(<<<<Lit(<<2994>>)>>, <<Lit(<<2994, 3021>>)>>>>), Lit(<<3006>>), Ws, Lit(<<2980, 3019, 2970, 3016>>)>>),
                 Regex(<<Lit(<<109, 97, 115, 97, 108, 97>>), Ws, Lit(<<100, 111, 115, 97>>)>>),
                 Regex(<<Lit(<<109>>), Ws, Lit(<<100, 111, 115, 97>>)>>) >>],
     \* Egg Dosa
     \*   /\u0BAE\u0BC1\u0B9F\u0BCD\u0B9F\u0BC8\s*\u0BA4\u0BCB\u0B9A\u0BC8/iu
     \*   /egg\s*dosa/iu
     \*   /((\u0B8F|\u0B8E)\u0B95\u0BCD).{0,12}\u0BA4\u0BCB\u0B9A\u0BC8/iu
     [key |-> KeyEggDosa,
      pats |-> << Regex(<<Lit(<<2990, 3009, 2975, 3021, 2975, 3016>>), Ws, Lit(<<2980, 3019, 2970, 3016>>)>>),
                 Regex(<<Lit(<<101, 103, 103>>), Ws, Lit(<<100, 111, 115, 97>>)>>),
                 Regex(<<Alt(<<<<Lit(<<2959>>)>>, <<Lit(<<2958>>)>>>>), Lit(<<2965, 3021>>), AnyUpTo(12), Lit(<<2980, 3019, 2970, 3016>>)>>) >>],
     \* Plain Dosa
     \*   /\u0BA4\u0BCB\u0B9A\u0BC8/iu
     \*   /\bdosa\b/iu
     \*   /\bdosai\b/iu
     [key |-> KeyPlainDosa,
      pats |-> << Regex(<<Lit(<<2980, 3019, 2970, 3016>>)>>),
                 Regex(<<Wb, Lit(<<100, 111, 115, 97>>), Wb>>),
                 Regex(<<Wb, Lit(<<100, 111, 115, 97, 105>>), Wb>>) >>],
     \* Parotta (2 pcs)
     \*   /\u0BAA(\u0BC1|)\u0BB0\u0BCB\u0B9F\u0BCD\u0B9F\u0BBE/iu
     \*   /\bparotta\b/iu
     \*   /\bparota\b/iu
     \*   /\bbarotta\b/iu
     \*   /\bporotta\b/iu
     [key |-> KeyParotta2Pcs,
      pats |-> << Regex(<<Lit(<<2986>>), Alt(<<<<Lit(<<3009>>)>>, <<>>>>), Lit(<<2992, 3019, 2975, 3021, 2975, 3006>>)>>),
                 Regex(<<Wb, Lit(<<112, 97, 114, 111, 116, 116, 97>>), Wb>>),
                 Regex(<<Wb, Lit(<<112, 97, 114, 111, 116, 97>>), Wb>>),
                 Regex(<<Wb, Lit(<<98, 97, 114, 111, 116, 116, 97>>), Wb>>),
                 Regex(<<Wb, Lit(<<112, 111, 114, 111, 116, 116, 97>>), Wb>>) >>],
     \* Egg Parotta
     \*   /(\u0BAE\u0BC1\u0B9F\u0BCD\u0B9F\u0BC8|((\u0B8F|\u0B8E)\u0B95\u0BCD+)|\u0B8F\u0B95\u0BCD\u0B95|\u0B85\u0BA3\u0BCD\u0B9F\u0BC1)\s*(\u0B89\u0B9F\u0BA9\u0BCD|\u0B93\u0B9F\u0BC1|\u0B92\u0B9F\u0BC1|\u0BA4\u0BCB\u0B9F\u0BC1|\u0BA4\u0BCD\u0BA4\u0BCB\u0B9F\u0BC1|\u0B95\u0BC2\u0B9F)?\s*(\u0BAA\u0BB0\u0BCB\u0B9F\u0BCD\u0B9F\u0BBE)/iu
     \*   /(egg)\s*(with)?\s*(parotta|parota|porotta|barotta)/iu
     \*   /(parotta|parota|porotta|barotta)\s*(with)?\s*(egg)/iu
     [key |-> KeyEggParotta,
      pats |-> << Regex(<<Alt(<<<<Lit(<<2990, 3009, 2975, 3021, 2975, 3016>>)>>, <<Alt(<<<<Lit(<<2959>>)>>, <<Lit(<<2958>>)>>>>), Lit(<<2965>>), Plus(<<Lit(<<3021>>)>>)>>, <<Lit(<<2959, 2965, 3021, 2965>>)>>, <<Lit(<<2949, 2979, 3021, 2975, 3009>>)>>>>), Ws, Opt(<<Alt(<<<<Lit(<<2953, 2975, 2985, 3021>>)>>, <<Lit(<<2963, 2975, 3009>>)>>, <<Lit(<<2962, 2975, 3009>>)>>, <<Lit(<<2980, 3019, 2975, 3009>>)>>, <<Lit(<<2980, 3021, 2980, 3019, 2975, 3009>>)>>, <<Lit(<<2965, 3010, 2975>>)>>>>)>>), Ws, Lit(<<2986, 2992, 3019, 2975, 3021, 2975, 3006>>)>>),
                 Regex(<<Lit(<<101, 103, 103>>), Ws, Opt(<<Lit(<<119, 105, 116, 104>>)>>), Ws, Alt(<<<<Lit(<<112, 97, 114, 111, 116, 116, 97>>)>>, <<Lit(<<112, 97, 114, 111, 116, 97>>)>>, <<Lit(<<112, 111, 114, 111, 116, 116, 97>>)>>, <<Lit(<<98, 97, 114, 111, 116, 116, 97>>)>>>>)>>),
                 Regex(<<Alt(<<<<Lit(<<112, 97, 114, 111, 116, 116, 97>>)>>, <<Lit(<<112, 97, 114, 111, 116, 97>>)>>, <<Lit(<<112, 111, 114, 111, 116, 116, 97>>)>>, <<Lit(<<98, 97, 114, 111, 116, 116, 97>>)>>>>), Ws, Opt(<<Lit(<<119, 105, 116, 104>>)>>), Ws, Lit(<<101, 103, 103>>)>>) >>],
     \* Kalakki
     \*   /\u0B95\u0BB2\u0B95\u0BCD\u0B95\u0BBF/iu
     \*   /kalakki/iu
     [key |-> KeyKalakki,
      pats |-> << Regex(<<Lit(<<2965, 2994, 2965, 3021, 2965, 3007>>)>>),
                 Regex(<<Lit(<<107, 97, 108, 97, 107, 107, 105>>)>>) >>],
     \* Omelette
     \*   /\u0B86\u0BAE\u0BCD\u0BB2\u0BC6\u0B9F\u0BCD/iu
     \*   /omelette?/iu
     \*   /omlette/iu
     \*   /omlet/iu
     [key |-> KeyOmelette,
      pats |-> << Regex(<<Lit(<<2950, 2990, 3021, 2994, 3014, 2975, 3021>>)>>),
                 Regex(<<Lit(<<111, 109, 101, 108, 101, 116, 116>>), Opt(<<Lit(<<101>>)>>)>>),
                 Regex(<<Lit(<<111, 109, 108, 101, 116, 116, 101>>)>>),
                 Regex(<<Lit(<<111, 109, 108, 101, 116>>)>>) >>],
     \* Idly (4 pcs)
     \*   /\u0B87\u0B9F\u0BCD\u0BB2\u0BBF/iu
     \*   /\bidli\b/iu
     \*   /\bidly\b/iu
     \*   /\bitly\b/iu
     [key |-> KeyIdly4Pcs,
      pats |-> << Regex(<<Lit(<<2951, 2975, 3021, 2994, 3007>>)>>),
                 Regex(<<Wb, Lit(<<105, 100, 108, 105>>), Wb>>),
                 Regex(<<Wb, Lit(<<105, 100, 108, 121>>), Wb>>),
                 Regex(<<Wb, Lit(<<105, 116, 108, 121>>), Wb>>) >>],
     \* Chicken Biryani
     \*   /\u0B9A\u0BBF\u0B95\u0BCD\u0B95\u0BA9\u0BCD\s*\u0BAA\u0BBF\u0BB0\u0BBF\u0BAF\u0BBE\u0BA3\u0BBF/iu
     \*   /chicken\s*biryani/iu
     [key |-> KeyChickenBiryani,
      pats |-> << Regex(<<Lit(<<2970, 3007, 2965, 3021, 2965, 2985, 3021>>), Ws, Lit(<<2986, 3007, 2992, 3007, 2991, 3006, 2979, 3007>>)>>),
                 Regex(<<Lit(<<99, 104, 105, 99, 107, 101, 110>>), Ws, Lit(<<98, 105, 114, 121, 97, 110, 105>>)>>) >>],
     \* Tea
     \*   /\u0B9F\u0BC0/iu
     \*   /tea/iu
     [key |-> KeyTea,
      pats |-> << Regex(<<Lit(<<2975, 3008>>)>>),
                 Regex(<<Lit(<<116, 101, 97>>)>>) >>],
     \* Curd Rice
     \*   /\u0BA4\u0BAF\u0BBF\u0BB0\u0BCD\s*(\u0B9A\u0BBE\u0BA4\u0BAE\u0BCD|\u0B9A\u0BCB\u0BB1\u0BC1|\u0B9A\u0BBE)?/iu
     \*   /curd\s*rice/iu
     [key |-> KeyCurdRice,
      pats |-> << Regex(<<Lit(<<2980, 2991, 3007, 2992, 3021>>), Ws, Opt(<<Alt(<<<<Lit(<<2970, 3006, 2980, 2990, 3021>>)>>, <<Lit(<<2970, 3019, 2993, 3009>>)>>, <<Lit(<<2970, 3006>>)>>>>)>>)>>),
                 Regex(<<Lit(<<99, 117, 114, 100>>), Ws, Lit(<<114, 105, 99, 101>>)>>) >>] >>

\* The alias pattern table of controllers/billController.js, in Map order.
SynonymPatternsBill ==
  <<
     \* Veg Kothu Parotta
     \*   /(\u0B95\u0BCA\u0BA4\u0BCD\u0BA4\u0BC1|\u0B95\u0BC1\u0BA4\u0BCD\u0BA4\u0BC1|\u0B95\u0BCB\u0BA4\u0BCD\u0BA4\u0BC1|\u0B95\u0BCA\u0BA4\u0BCD\u0BA4)\s*\u0BAA\u0BB0\u0BCB\u0B9F\u0BCD\u0B9F\u0BBE/iu
     \*   /kothu\s*parotta/iu
     \*   /kothu\s*parota/iu
     \*   /kuthu\s*parotta/iu
     \*   /kothu\s*barotta/iu
     \*   /kothu\s*porotta/iu
     [key |-> KeyVegKothuParotta,
      pats |-> << Regex(<<Alt(<<<<Lit(<<2965, 3018, 2980, 3021, 2980, 3009>>)>>, <<Lit(<<2965, 3009, 2980, 3021, 2980, 3009>>)>>, <<Lit(<<2965, 3019, 2980, 3021, 2980, 3009>>)>>, <<Lit(<<2965, 3018, 2980, 3021, 2980>>)>>>>), Ws, Lit(<<2986, 2992, 3019, 2975, 3021, 2975, 3006>>)>>),
                 Regex(<<Lit(<<107, 111, 116, 104, 117>>), Ws, Lit(<<112, 97, 114, 111, 116, 116, 97>>)>>),
                 Regex(<<Lit(<<107, 111, 116, 104, 117>>), Ws, Lit(<<112, 97, 114, 111, 116, 97>>)>>),
                 Regex(<<Lit(<<107, 117, 116, 104, 117>>), Ws, Lit(<<112, 97, 114, 111, 116, 116, 97>>)>>),
                 Regex(<<Lit(<<107, 111, 116, 104, 117>>), Ws, Lit(<<98, 97, 114, 111, 116, 116, 97>>)>>),
                 Regex(<<Lit(<<107, 111, 116, 104, 117>>), Ws, Lit(<<112, 111, 114, 111, 116, 116, 97>>)>>) >>],
     \* Egg Kothu Parotta
     \*   /\u0BAE\u0BC1\u0B9F\u0BCD\u0B9F\u0BC8\s*(\u0B95\u0BCA\u0BA4\u0BCD\u0BA4\u0BC1|\u0B95\u0BC1\u0BA4\u0BCD\u0BA4\u0BC1|\u0B95\u0BCB\u0BA4\u0BCD\u0BA4\u0BC1|\u0B95\u0BCA\u0BA4\u0BCD\u0BA4)\s*(\u0BAA\u0BB0\u0BCB\u0B9F\u0BCD\u0B9F\u0BBE)?/iu
     \*   /((\u0B8F|\u0B8E)\u0B95\u0BCD|\u0B8E\u0B95|\u0B8F\u0B95\u0BCD\u0B95)\s*(\u0B95\u0BCA\u0BA4\u0BCD\u0BA4\u0BC1|\u0B95\u0BC1\u0BA4\u0BCD\u0BA4\u0BC1|\u0B95\u0BCB\u0BA4\u0BCD\u0BA4\u0BC1|\u0B95\u0BCA\u0BA4\u0BCD\u0BA4)\s*(\u0BAA\u0BB0\u0BCB\u0B9F\u0BCD\u0B9F\u0BBE)?/iu
     \*   /\u0B85\u0BA3\u0BCD\u0B9F(\u0BC1)?\s*(\u0B95\u0BCA\u0BA4\u0BCD\u0BA4\u0BC1|\u0B95\u0BC1\u0BA4\u0BCD\u0BA4\u0BC1|\u0B95\u0BCB\u0BA4\u0BCD\u0BA4\u0BC1|\u0B95\u0BCA\u0BA4\u0BCD\u0BA4)\s*(\u0BAA\u0BB0\u0BCB\u0B9F\u0BCD\u0B9F\u0BBE)?/iu
     \*   /egg\s*(kothu|kuthu|koththu)\s*(parotta|parota|porotta|barotta)?/iu
     [key |-> KeyEggKothuParotta,
      pats |-> << Regex(<<Lit(<<2990, 3009, 2975, 3021, 2975, 3016>>), Ws, Alt(<<<<Lit(<<2965, 3018, 2980, 3021, 2980, 3009>>)>>, <<Lit(<<2965, 3009, 2980, 3021, 2980, 3009>>)>>, <<Lit(<<2965, 3019, 2980, 3021, 2980, 3009>>)>>, <<Lit(<<2965, 3018, 2980, 3021, 2980>>)>>>>), Ws, Opt(<<Lit(<<2986, 2992, 3019, 2975, 3021, 2975, 3006>>)>>)>>),
                 Regex(<<Alt(<<<<Alt(<<<<Lit(<<2959>>)>>, <<Lit(<<2958>>)>>>>), Lit(<<2965, 3021>>)>>, <<Lit(<<2958, 2965>>)>>, <<Lit(<<2959, 2965, 3021, 2965>>)>>>>), Ws, Alt(<<<<Lit(<<2965, 3018, 2980, 3021, 2980, 3009>>)>>, <<Lit(<<2965, 3009, 2980, 3021, 2980, 3009>>)>>, <<Lit(<<2965, 3019, 2980, 3021, 2980, 3009>>)>>, <<Lit(<<2965, 3018, 2980, 3021, 2980>>)>>>>), Ws, Opt(<<Lit(<<2986, 2992, 3019, 2975, 3021, 2975, 3006>>)>>)>>),
                 Regex(<<Lit(<<2949, 2979, 3021, 2975>>), Opt(<<Lit(<<3009>>)>>), Ws, Alt(<<<<Lit(<<2965, 3018, 2980, 3021, 2980, 3009>>)>>, <<Lit(<<2965, 3009, 2980, 3021, 2980, 3009>>)>>, <<Lit(<<2965, 3019, 2980, 3021, 2980, 3009>>)>>, <<Lit(<<2965, 3018, 2980, 3021, 2980>>)>>>>), Ws, Opt(<<Lit(<<2986, 2992, 3019, 2975, 3021, 2975, 3006>>)>>)>>),
                 Regex(<<Lit(<<101, 103, 103>>), Ws, Alt(<<<<Lit(<<107, 111, 116, 104, 117>>)>>, <<Lit(<<107, 117, 116, 104, 117>>)>>, <<Lit(<<107, 111, 116, 104, 116, 104, 117>>)>>>>), Ws, Opt(<<Alt(<<<<Lit(<<112, 97, 114, 111, 116, 116, 97>>)>>, <<Lit(<<112, 97, 114, 111, 116, 97>>)>>, <<Lit(<<112, 111, 114, 111, 116, 116, 97>>)>>, <<Lit(<<98, 97, 114, 111, 116, 116, 97>>)>>>>)>>)>>) >>],
     \* Chicken Kothu Parotta
     \*   /\u0B9A\u0BBF\u0B95\u0BCD\u0B95\u0BA9\u0BCD\s*(\u0B95\u0BCA\u0BA4\u0BCD\u0BA4\u0BC1|\u0B95\u0BC1\u0BA4\u0BCD\u0BA4\u0BC1|\u0B95\u0BCB\u0BA4\u0BCD\u0BA4\u0BC1|\u0B95\u0BCA\u0BA4\u0BCD\u0BA4)\s*(\u0BAA\u0BB0\u0BCB\u0B9F\u0BCD\u0B9F\u0BBE)?/iu
     \*   /chicken\s*(kothu|kuthu|koththu)\s*(parotta|parota|porotta|barotta)?/iu
     [key |-> KeyChickenKothuParotta,
      pats |-> << Regex(<<Lit(<<2970, 3007, 2965, 3021, 2965, 2985, 3021>>), Ws, Alt(<<<<Lit(<<2965, 3018, 2980, 3021, 2980, 3009>>)>>, <<Lit(<<2965, 3009, 2980, 3021, 2980, 3009>>)>>, <<Lit(<<2965, 3019, 2980, 3021, 2980, 3009>>)>>, <<Lit(<<2965, 3018, 2980, 3021, 2980>>)>>>>), Ws, Opt(<<Lit(<<2986, 2992, 3019, 2975, 3021, 2975, 3006>>)>>)>>),
                 Regex(<<Lit(<<99, 104, 105, 99, 107, 101, 110>>), Ws, Alt(<<<<Lit(<<107, 111, 116, 104, 117>>)>>, <<Lit(<<107, 117, 116, 104, 117>>)>>, <<Lit(<<107, 111, 116, 104, 116, 104, 117>>)>>>>), Ws, Opt(<<Alt(<<<<Lit(<<112, 97, 114, 111, 116, 116, 97>>)>>, <<Lit(<<112, 97, 114, 111, 116, 97>>)>>, <<Lit(<<112, 111, 114, 111, 116, 116, 97>>)>>, <<Lit(<<98, 97, 114, 111, 116, 116, 97>>)>>>>)>>)>>) >>],
     \* Set Dosa (1 pcs)
     \*   /\u0B9A\u0BC6\u0B9F\u0BCD\s*\u0BA4\u0BCB\u0B9A\u0BC8/iu
     \*   /set\s*dosa/iu
     \*   /set\s*dosai/iu
     [key |-> KeySetDosa1Pcs,
      pats |-> << Regex(<<Lit(<<2970, 3014, 2975, 3021>>), Ws, Lit(<<2980, 3019, 2970, 3016>>)>>),
                 Regex(<<Lit(<<115, 101, 116>>), Ws, Lit(<<100, 111, 115, 97>>)>>),
                 Regex(<<Lit(<<115, 101, 116>>), Ws, Lit(<<100, 111, 115, 97, 105>>)>>) >>],
     \* Ghee Dosa
     \*   /\u0BA8\u0BC6\u0BAF\u0BCD\s*\u0BA4\u0BCB\u0B9A\u0BC8/iu
     \*   /ghee\s*dosa/iu
     [key |-> KeyGheeDosa,
      pats |-> << Regex(<<Lit(<<2984, 3014, 2991, 3021>>), Ws, Lit(<<2980, 3019, 2970, 3016>>)>>),
                 Regex(<<Lit(<<103, 104, 101, 101>>), Ws, Lit(<<100, 111, 115, 97>>)>>) >>],
     \* Masala Dosa
     \*   /\u0BAE\u0B9A\u0BBE(\u0BB2|\u0BB2\u0BCD)\u0BBE\s*\u0BA4\u0BCB\u0B9A\u0BC8/iu
     \*   /masala\s*dosa/iu
     \*   /\bm\s*dosa\b/iu
     [key |-> KeyMasalaDosa,
      pats |-> << Regex(<<Lit(<<2990, 2970, 3006>>), Alt(<<<<Lit(<<2994>>)>>, <<Lit(<<2994, 3021>>)>>>>), Lit(<<3006>>), Ws, Lit(<<2980, 3019, 2970, 3016>>)>>),
                 Regex(<<Lit(<<109, 97, 115, 97, 108, 97>>), Ws, Lit(<<100, 111, 115, 97>>)>>),
                 Regex(<<Wb, Lit(<<109>>), Ws, Lit(<<100, 111, 115, 97>>), Wb>>) >>],
     \* Egg Dosa
     \*   /\u0BAE\u0BC1\u0B9F\u0BCD\u0B9F\u0BC8\s*\u0BA4\u0BCB\u0B9A\u0BC8/iu
     \*   /egg\s*dosa/iu
     \*   /((\u0B8F|\u0B8E)\u0B95\u0BCD).{0,12}\u0BA4\u0BCB\u0B9A\u0BC8/iu
     [key |-> KeyEggDosa,
      pats |-> << Regex(<<Lit(<<2990, 3009, 2975, 3021, 2975, 3016>>), Ws, Lit(<<2980, 3019, 2970, 3016>>)>>),
                 Regex(<<Lit(<<101, 103, 103>>), Ws, Lit(<<100, 111, 115, 97>>)>>),
                 Regex(<<Alt(<<<<Lit(<<2959>>)>>, <<Lit(<<2958>>)>>>>), Lit(<<2965, 3021>>), AnyUpTo(12), Lit(<<2980, 3019, 2970, 3016>>)>>) >>],
     \* Plain Dosa
     \*   /\u0BA4\u0BCB\u0B9A\u0BC8/iu
     \*   /\bdosa\b/iu
     \*   /\bdosai\b/iu
     [key |-> KeyPlainDosa,
      pats |-> << Regex(<<Lit(<<2980, 3019, 2970, 3016>>)>>),
                 Regex(<<Wb, Lit(<<100, 111, 115, 97>>), Wb>>),
                 Regex(<<Wb, Lit(<<100, 111, 115, 97, 105>>), Wb>>) >>],
     \* Parotta (2 pcs)
     \*   /\u0BAA(\u0BC1|)\u0BB0\u0BCB\u0B9F\u0BCD\u0B9F\u0BBE/iu
     \*   /\bparotta\b/iu
     \*   /\bparota\b/iu
     \*   /\bbarotta\b/iu
     \*   /\bporotta\b/iu
     [key |-> KeyParotta2Pcs,
      pats |-> << Regex(<<Lit(<<2986>>), Alt(<<<<Lit(<<3009>>)>>, <<>>>>), Lit(<<2992, 3019, 2975, 3021, 2975, 3006>>)>>),
                 Regex(<<Wb, Lit(<<112, 97, 114, 111, 116, 116, 97>>), Wb>>),
                 Regex(<<Wb, Lit(<<112, 97, 114, 111, 116, 97>>), Wb>>),
                 Regex(<<Wb, Lit(<<98, 97, 114, 111, 116, 116, 97>>), Wb>>),
                 Regex(<<Wb, Lit(<<112, 111, 114, 111, 116, 116, 97>>), Wb>>) >>],
     \* Kalakki
     \*   /\u0B95\u0BB2\u0B95\u0BCD\u0B95\u0BBF/iu
     \*   /kalakki/iu
     [key |-> KeyKalakki,
      pats |-> << Regex(<<Lit(<<2965, 2994, 2965, 3021, 2965, 3007>>)>>),
                 Regex(<<Lit(<<107, 97, 108, 97, 107, 107, 105>>)>>) >>],
     \* Omelette
     \*   /\u0B86\u0BAE\u0BCD\u0BB2\u0BC6\u0B9F\u0BCD/iu
     \*   /omelette?/iu
     \*   /omlette/iu
     \*   /omlet/iu
     [key |-> KeyOmelette,
      pats |-> << Regex(<<Lit(<<2950, 2990, 3021, 2994, 3014, 2975, 3021>>)>>),
                 Regex(<<Lit(<<111, 109, 101, 108, 101, 116, 116>>), Opt(<<Lit(<<101>>)>>)>>),
                 Regex(<<Lit(<<111, 109, 108, 101, 116, 116, 101>>)>>),
                 Regex(<<Lit(<<111, 109, 108, 101, 116>>)>>) >>],
     \* Idly (4 pcs)
     \*   /\u0B87\u0B9F\u0BCD\u0BB2\u0BBF/iu
     \*   /\bidli\b/iu
     \*   /\bidly\b/iu
     \*   /\bitly\b/iu
     [key |-> KeyIdly4Pcs,
      pats |-> << Regex(<<Lit(<<2951, 2975, 3021, 2994, 3007>>)>>),
                 Regex(<<Wb, Lit(<<105, 100, 108, 105>>), Wb>>),
                 Regex(<<Wb, Lit(<<105, 100, 108, 121>>), Wb>>),
                 Regex(<<Wb, Lit(<<105, 116, 108, 121>>), Wb>>) >>],
     \* Chicken Biryani
     \*   /\u0B9A\u0BBF\u0B95\u0BCD\u0B95\u0BA9\u0BCD\s*\u0BAA\u0BBF\u0BB0\u0BBF\u0BAF\u0BBE\u0BA3\u0BBF/iu
     \*   /chicken\s*biryani/iu
     [key |-> KeyChickenBiryani,
      pats |-> << Regex(<<Lit(<<2970, 3007, 2965, 3021, 2965, 2985, 3021>>), Ws, Lit(<<2986, 3007, 2992, 3007, 2991, 3006, 2979, 3007>>)>>),
                 Regex(<<Lit(<<99, 104, 105, 99, 107, 101, 110>>), Ws, Lit(<<98, 105, 114, 121, 97, 110, 105>>)>>) >>] >>

\* QUALIFIER_SKIP of similarity.js:
\*   Plain Dosa: /(\u0BAE\u0B9A\u0BBE\u0BB2\u0BBE|\u0BAE\u0B9A\u0BBE\u0BB2\u0BCD|\u0BA8\u0BC6\u0BAF\u0BCD|egg|\u0BAE\u0BC1\u0B9F\u0BCD\u0B9F\u0BC8|masala|ghee)/iu
\*   Parotta (2 pcs): /(\u0B95\u0BCA\u0BA4\u0BCD\u0BA4\u0BC1|kothu|egg|\u0BAE\u0BC1\u0B9F\u0BCD\u0B9F\u0BC8|((\u0B8F|\u0B8E)\u0B95\u0BCD+)|\u0B8F\u0B95\u0BCD\u0B95|\u0B85\u0BA3\u0BCD\u0B9F\u0BC1|chicken|\u0B9A\u0BBF\u0B95\u0BCD\u0B95\u0BA9\u0BCD)/iu
QualifierSkipSim ==
  << [key |-> KeyPlainDosa, res |-> << Regex(<<Alt(<<<<Lit(<<2990, 2970, 3006, 2994, 3006>>)>>, <<Lit(<<2990, 2970, 3006, 2994, 3021>>)>>, <<Lit(<<2984, 3014, 2991, 3021>>)>>, <<Lit(<<101, 103, 103>>)>>, <<Lit(<<2990, 3009, 2975, 3021, 2975, 3016>>)>>, <<Lit(<<109, 97, 115, 97, 108, 97>>)>>, <<Lit(<<103, 104, 101, 101>>)>>>>)>>) >>],
     [key |-> KeyParotta2Pcs, res |-> << Regex(<<Alt(<<<<Lit(<<2965, 3018, 2980, 3021, 2980, 3009>>)>>, <<Lit(<<107, 111, 116, 104, 117>>)>>, <<Lit(<<101, 103, 103>>)>>, <<Lit(<<2990, 3009, 2975, 3021, 2975, 3016>>)>>, <<Alt(<<<<Lit(<<2959>>)>>, <<Lit(<<2958>>)>>>>), Lit(<<2965>>), Plus(<<Lit(<<3021>>)>>)>>, <<Lit(<<2959, 2965, 3021, 2965>>)>>, <<Lit(<<2949, 2979, 3021, 2975, 3009>>)>>, <<Lit(<<99, 104, 105, 99, 107, 101, 110>>)>>, <<Lit(<<2970, 3007, 2965, 3021, 2965, 2985, 3021>>)>>>>)>>) >>] >>

\* QUALIFIER_SKIP of billController.js:
\*   Plain Dosa: /(\u0BAE\u0B9A\u0BBE\u0BB2\u0BBE|\u0BAE\u0B9A\u0BBE\u0BB2\u0BCD|\u0BA8\u0BC6\u0BAF\u0BCD|egg|\u0BAE\u0BC1\u0B9F\u0BCD\u0B9F\u0BC8|masala|ghee)/iu
\*   Parotta (2 pcs): /(\u0B95\u0BCA\u0BA4\u0BCD\u0BA4\u0BC1|kothu|egg|\u0BAE\u0BC1\u0B9F\u0BCD\u0B9F\u0BC8|chicken|\u0B9A\u0BBF\u0B95\u0BCD\u0B95\u0BA9\u0BCD)/iu
QualifierSkipBill ==
  << [key |-> KeyPlainDosa, res |-> << Regex(<<Alt(<<<<Lit(<<2990, 2970, 3006, 2994, 3006>>)>>, <<Lit(<<2990, 2970, 3006, 2994, 3021>>)>>, <<Lit(<<2984, 3014, 2991, 3021>>)>>, <<Lit(<<101, 103, 103>>)>>, <<Lit(<<2990, 3009, 2975, 3021, 2975, 3016>>)>>, <<Lit(<<109, 97, 115, 97, 108, 97>>)>>, <<Lit(<<103, 104, 101, 101>>)>>>>)>>) >>],
     [key |-> KeyParotta2Pcs, res |-> << Regex(<<Alt(<<<<Lit(<<2965, 3018, 2980, 3021, 2980, 3009>>)>>, <<Lit(<<107, 111, 116, 104, 117>>)>>, <<Lit(<<101, 103, 103>>)>>, <<Lit(<<2990, 3009, 2975, 3021, 2975, 3016>>)>>, <<Lit(<<99, 104, 105, 99, 107, 101, 110>>)>>, <<Lit(<<2970, 3007, 2965, 3021, 2965, 2985, 3021>>)>>>>)>>) >>] >>

\* /egg/i
ReEgg ==
  Regex(<<Lit(<<101, 103, 103>>)>>)

\* /parotta|parota|porotta|barotta/i
ReParottaAny ==
  Regex(<<Alt(<<<<Lit(<<112, 97, 114, 111, 116, 116, 97>>)>>, <<Lit(<<112, 97, 114, 111, 116, 97>>)>>, <<Lit(<<112, 111, 114, 111, 116, 116, 97>>)>>, <<Lit(<<98, 97, 114, 111, 116, 116, 97>>)>>>>)>>)

\* /kothu\s*parotta/i
ReKothuParotta ==
  Regex(<<Lit(<<107, 111, 116, 104, 117>>), Ws, Lit(<<112, 97, 114, 111, 116, 116, 97>>)>>)

\* /egg|chicken/i
ReEggOrChicken ==
  Regex(<<Alt(<<<<Lit(<<101, 103, 103>>)>>, <<Lit(<<99, 104, 105, 99, 107, 101, 110>>)>>>>)>>)

\* /chicken/i
ReChicken ==
  Regex(<<Lit(<<99, 104, 105, 99, 107, 101, 110>>)>>)

\* /set\s*dosa/i
ReSetDosa ==
  Regex(<<Lit(<<115, 101, 116>>), Ws, Lit(<<100, 111, 115, 97>>)>>)

\* /ghee\s*dosa/i
ReGheeDosa ==
  Regex(<<Lit(<<103, 104, 101, 101>>), Ws, Lit(<<100, 111, 115, 97>>)>>)

\* /\u0BA8\u0BC6\u0BAF\u0BCD\s*\u0BA4\u0BCB\u0B9A\u0BC8/i
ReGheeDosaTa ==
  Regex(<<Lit(<<2984, 3014, 2991, 3021>>), Ws, Lit(<<2980, 3019, 2970, 3016>>)>>)

\* /masala\s*dosa/i
ReMasalaDosa ==
  Regex(<<Lit(<<109, 97, 115, 97, 108, 97>>), Ws, Lit(<<100, 111, 115, 97>>)>>)

\* /\u0BAE\u0B9A\u0BBE\u0BB2\u0BBE\s*\u0BA4\u0BCB\u0B9A\u0BC8/i
ReMasalaDosaTa ==
  Regex(<<Lit(<<2990, 2970, 3006, 2994, 3006>>), Ws, Lit(<<2980, 3019, 2970, 3016>>)>>)

\* /egg\s*dosa/i
ReEggDosa ==
  Regex(<<Lit(<<101, 103, 103>>), Ws, Lit(<<100, 111, 115, 97>>)>>)

\* /\u0BAE\u0BC1\u0B9F\u0BCD\u0B9F\u0BC8\s*\u0BA4\u0BCB\u0B9A\u0BC8/i
ReEggDosaTa ==
  Regex(<<Lit(<<2990, 3009, 2975, 3021, 2975, 3016>>), Ws, Lit(<<2980, 3019, 2970, 3016>>)>>)

\* /\bdosa\b/i
ReDosaWord ==
  Regex(<<Wb, Lit(<<100, 111, 115, 97>>), Wb>>)

\* /masala|ghee|onion|egg|uthappam|set|kal/i
RePlainExclude ==
  Regex(<<Alt(<<<<Lit(<<109, 97, 115, 97, 108, 97>>)>>, <<Lit(<<103, 104, 101, 101>>)>>, <<Lit(<<111, 110, 105, 111, 110>>)>>, <<Lit(<<101, 103, 103>>)>>, <<Lit(<<117, 116, 104, 97, 112, 112, 97, 109>>)>>, <<Lit(<<115, 101, 116>>)>>, <<Lit(<<107, 97, 108>>)>>>>)>>)

\* /\u0BAE\u0B9A\u0BBE\u0BB2\u0BBE|\u0BA8\u0BC6\u0BAF\u0BCD|\u0BB5\u0BC6\u0B99\u0BCD\u0B95\u0BBE\u0BAF|\u0BAE\u0BC1\u0B9F\u0BCD\u0B9F\u0BC8|\u0B9A\u0BC6\u0B9F\u0BCD/i
RePlainExcludeTa ==
  Regex(<<Alt(<<<<Lit(<<2990, 2970, 3006, 2994, 3006>>)>>, <<Lit(<<2984, 3014, 2991, 3021>>)>>, <<Lit(<<2997, 3014, 2969, 3021, 2965, 3006, 2991>>)>>, <<Lit(<<2990, 3009, 2975, 3021, 2975, 3016>>)>>, <<Lit(<<2970, 3014, 2975, 3021>>)>>>>)>>)

\* /parotta|parota/i
ReParotta ==
  Regex(<<Alt(<<<<Lit(<<112, 97, 114, 111, 116, 116, 97>>)>>, <<Lit(<<112, 97, 114, 111, 116, 97>>)>>>>)>>)

\* /kothu|egg|chicken/i
ReParottaExclude ==
  Regex(<<Alt(<<<<Lit(<<107, 111, 116, 104, 117>>)>>, <<Lit(<<101, 103, 103>>)>>, <<Lit(<<99, 104, 105, 99, 107, 101, 110>>)>>>>)>>)

\* /kalakki/i
ReKalakki ==
  Regex(<<Lit(<<107, 97, 108, 97, 107, 107, 105>>)>>)

\* /\u0B95\u0BB2\u0B95\u0BBF/i
ReKalakkiTa ==
  Regex(<<Lit(<<2965, 2994, 2965, 3007>>)>>)

\* /omelet/i
ReOmelet ==
  Regex(<<Lit(<<111, 109, 101, 108, 101, 116>>)>>)

\* /\u0B86\u0BAE\u0BCD\u0BB2\u0BC6\u0B9F\u0BCD/i
ReOmeletTa ==
  Regex(<<Lit(<<2950, 2990, 3021, 2994, 3014, 2975, 3021>>)>>)

\* /idli|idly/i
ReIdli ==
  Regex(<<Alt(<<<<Lit(<<105, 100, 108, 105>>)>>, <<Lit(<<105, 100, 108, 121>>)>>>>)>>)

\* /\u0B87\u0B9F\u0BCD\u0BB2\u0BBF/i
ReIdliTa ==
  Regex(<<Lit(<<2951, 2975, 3021, 2994, 3007>>)>>)

\* /biryani|\u0BAA\u0BBF\u0BB0\u0BBF\u0BAF\u0BBE\u0BA3\u0BBF/i
ReBiryani ==
  Regex(<<Alt(<<<<Lit(<<98, 105, 114, 121, 97, 110, 105>>)>>, <<Lit(<<2986, 3007, 2992, 3007, 2991, 3006, 2979, 3007>>)>>>>)>>)

\* /\btea\b/i
ReTeaWord ==
  Regex(<<Wb, Lit(<<116, 101, 97>>), Wb>>)

\* /\u0B9F\u0BC0/i
ReTeaTa ==
  Regex(<<Lit(<<2975, 3008>>)>>)

\* /curd\s*rice/i
ReCurdRice ==
  Regex(<<Lit(<<99, 117, 114, 100>>), Ws, Lit(<<114, 105, 99, 101>>)>>)

\* /\u0BA4\u0BAF\u0BBF\u0BB0\u0BCD\s*(\u0B9A\u0BBE\u0BA4\u0BAE\u0BCD|\u0B9A\u0BCB\u0BB1\u0BC1)/i
ReCurdRiceTa ==
  Regex(<<Lit(<<2980, 2991, 3007, 2992, 3021>>), Ws, Alt(<<<<Lit(<<2970, 3006, 2980, 2990, 3021>>)>>, <<Lit(<<2970, 3019, 2993, 3009>>)>>>>)>>)

\* getSynonymPatterns() of the running copy.
getSynonymPatterns(v) == IF v = "bill" THEN SynonymPatternsBill ELSE SynonymPatternsSim

\* QUALIFIER_SKIP[aliasKey] of the running copy: the exclusion patterns of the
\* key, or the empty sequence when the key has none (undefined in the code).
QUALIFIER_SKIP(v, aliasKey) ==
  LET tab == IF v = "bill" THEN QualifierSkipBill ELSE QualifierSkipSim
      hit == SelectSeq(tab, LAMBDA e : e.key = aliasKey)
  IN  IF Len(hit) = 0 THEN <<>> ELSE hit[1].res

\* Size of the window before a match that the exclusion patterns are tested on.
SkipWindowBill == 16
SkipWindowSim == 28
SkipWindow(v) == IF v = "bill" THEN SkipWindowBill ELSE SkipWindowSim

----------------------------------------------------------------------------
(* JavaScript values handed to the parser.                                 *)

Str(chars) == [type |-> "string", chars |-> chars, num |-> 0]
Num(n)     == [type |-> "number", chars |-> <<>>, num |-> n]
JsNull      == [type |-> "null", chars |-> <<>>, num |-> 0]
JsUndefined == [type |-> "undefined", chars |-> <<>>, num |-> 0]
JsObject    == [type |-> "object", chars |-> <<>>, num |-> 0]

\* !v
Falsy(v) ==
  \/ v.type \in {"null", "undefined"}
  \/ v.type = "string" /\ Len(v.chars) = 0
  \/ v.type = "number" /\ v.num = 0

----------------------------------------------------------------------------
(* preprocessText                                                          *)

\* Canonical compositions of the Tamil block (the pairs NFC composes); every
\* other character of the model's alphabet is unchanged by NFC.
ComposePairs ==
  { <<2962, 3031, 2964>>, <<3014, 3006, 3018>>,
    <<3015, 3006, 3019>>, <<3014, 3031, 3020>> }

Composite(a, b) ==
  LET hit == { p \in ComposePairs : p[1] = a /\ p[2] = b }
  IN  IF hit = {} THEN -1 ELSE (CHOOSE p \in hit : TRUE)[3]

\* The opposite of NFC: every composite is taken apart (what normalize('NFD')
\* does to the model's alphabet). A parser that normalized this way would
\* match on another text than the normalized text it was given.
RECURSIVE normalizeNFD(_)
normalizeNFD(s) ==
  IF Len(s) = 0 THEN <<>>
  ELSE LET parts == { p \in ComposePairs : p[3] = s[1] }
       IN  (IF parts = {} THEN <<s[1]>>
            ELSE LET p == CHOOSE q \in parts : TRUE IN <<p[1], p[2]>>)
           \o normalizeNFD(Tail(s))

\* String.prototype.normalize('NFC'): adjacent composable pairs are composed,
\* left to right.
RECURSIVE normalizeNFC(_)
normalizeNFC(s) ==
  IF Len(s) < 2 THEN s
  ELSE IF Composite(s[1], s[2]) >= 0
       THEN normalizeNFC(<<Composite(s[1], s[2])>> \o SubSeq(s, 3, Len(s)))
       ELSE <<s[1]>> \o normalizeNFC(Tail(s))

\* [\u200B-\u200D\uFEFF]
ZeroWidth == {8203, 8204, 8205, 65279}

\* [.,;:!?()\[\]{}"'`~@#%^*&_=+<>/\\|-]
Punctuation ==
  {46, 44, 59, 58, 33, 63, 40, 41, 91, 93, 123, 125, 34, 39, 96, 126, 64, 35,
   37, 94, 42, 38, 95, 61, 43, 60, 62, 47, 92, 124, 45}

\* s.replace(/[set]/g, '')
removeAll(s, set) == SelectSeq(s, LAMBDA c : c \notin set)

\* s.replace(/[set]+/g, ' '): every maximal run of characters of set becomes
\* one space.
RECURSIVE replaceRuns(_, _)
replaceRuns(s, set) ==
  IF Len(s) = 0 THEN <<>>
  ELSE IF s[1] \in set
       THEN <<32>> \o replaceRuns(SubSeq(s, RunLen(set, s, 0, -1) + 1, Len(s)), set)
       ELSE <<s[1]>> \o replaceRuns(Tail(s), set)

\* String.prototype.trim
trim(s) ==
  LET lead == RunLen(WhiteSpace, s, 0, -1)
      idx == { i \in 1 .. Len(s) : s[i] \notin WhiteSpace }
      last == IF idx = {} THEN 0 ELSE CHOOSE i \in idx : \A j \in idx : j <= i
  IN  IF idx = {} THEN <<>> ELSE SubSeq(s, lead + 1, last)

\* The value an uncaught TypeError leaves in place of a string.
TypeErrorThrown == <<-1>>

\* preprocessText(input): (input || '') and the chain of its five steps; a
\* truthy value that is no string has no normalize method.
preprocessText(v) ==
  IF Falsy(v) THEN <<>>
  ELSE IF v.type # "string" THEN TypeErrorThrown
  ELSE trim(replaceRuns(replaceRuns(removeAll(normalizeNFC(v.chars), ZeroWidth),
                                    Punctuation), WhiteSpace))

----------------------------------------------------------------------------
(* detectQuantityNear                                                      *)

MAX_BEFORE == 14
MAX_AFTER == 10

Max(a, b) == IF a >= b THEN a ELSE b
Min(a, b) == IF a <= b THEN a ELSE b

\* The words of s that have length n, in the order of s, then those of
\* length n-1, ...: a stable sort by decreasing length.
RECURSIVE byLengthFrom(_, _)
byLengthFrom(s, n) ==
  IF n = 0 THEN <<>>
  ELSE SelectSeq(s, LAMBDA e : Len(e.word) = n) \o byLengthFrom(s, n - 1)

\* The lexicon in the order of the map, not sorted.
tamilNumberWordsUnsorted == TAMIL_NUMBER_MAP

\* Array.from(TAMIL_NUMBER_MAP.keys()).sort((a, b) => b.length - a.length),
\* each word with its value.
tamilNumberWords ==
  LET lens == { Len(TAMIL_NUMBER_MAP[i].word) : i \in DOMAIN TAMIL_NUMBER_MAP }
  IN  byLengthFrom(TAMIL_NUMBER_MAP, CHOOSE n \in lens : \A m \in lens : m <= n)

\* new RegExp(word + '\\s*$', 'iu') and new RegExp('^\\s*' + word, 'iu')
wordRegexBefore(word) == Regex(<<Lit(word), Ws, Eos>>)
wordRegexAfter(word) == Regex(<<Bos, Ws, Lit(word)>>)

\* The two regular expressions of every word of tamilNumberWords, compiled.
tamilNumberRegexes ==
  [i \in DOMAIN tamilNumberWords |->
     [before |-> wordRegexBefore(tamilNumberWords[i].word),
      after |-> wordRegexAfter(tamilNumberWords[i].word)]]

\* /(\d+)\s*$/ and /^\s*(\d+)/
ReBeforeNum == Regex(<<Digits, Ws, Eos>>)
ReAfterNum == Regex(<<Bos, Ws, Digits>>)

\* A detector that keeps no account of the consumed spans: every span is
\* free, however often it was taken.
isUnusedAlways(used, s, e) == TRUE

\* isUnused(s, e): no consumed span overlaps [s, e).
isUnused(used, s, e) ==
  ~ \E i \in DOMAIN used : ~ (e <= used[i].start \/ s >= used[i].end)

\* parseInt(digits, 10) of a run of decimal digits.
RECURSIVE parseInt(_)
parseInt(d) ==
  IF Len(d) = 0 THEN 0
  ELSE 10 * parseInt(SubSeq(d, 1, Len(d) - 1)) + (d[Len(d)] - 48)

\* String.prototype.indexOf: the least offset where sub stands in s, or -1.
indexOf(s, sub) ==
  LET at == { p \in 0 .. Len(s) :
                /\ p + Len(sub) <= Len(s)
                /\ \A i \in 1 .. Len(sub) : s[p + i] = sub[i] }
  IN  IF at = {} THEN -1 ELSE CHOOSE p \in at : \A q \in at : p <= q

\* What detectQuantityNear returns when it finds nothing.
DefaultQuantity == [quantity |-> 1, start |-> -1, end |-> -1]

\* 2) The first number-word, in the order of words, whose match before the
\*    item is unused.
RECURSIVE wordBefore(_, _, _, _, _)
wordBefore(words, i, beforeTextFull, matchStartIndex, used) ==
  IF i > Len(words) THEN DefaultQuantity
  ELSE
    LET m == Search(tamilNumberRegexes[i].before, beforeTextFull, 0)
        numStart == matchStartIndex - (m.end - m.index)
        numEnd == matchStartIndex
    IN  IF m.index >= 0 /\ isUnused(used, numStart, numEnd)
        THEN [quantity |-> words[i].value, start |-> numStart, end |-> numEnd]
        ELSE wordBefore(words, i + 1, beforeTextFull, matchStartIndex, used)

\* 4) The first number-word, in the order of words, whose match after the
\*    start of the item is unused.
RECURSIVE wordAfter(_, _, _, _, _)
wordAfter(words, i, afterTextFull, matchStartIndex, used) ==
  IF i > Len(words) THEN DefaultQuantity
  ELSE
    LET m == Search(tamilNumberRegexes[i].after, afterTextFull, 0)
        m0 == slice(afterTextFull, m.index, m.end)
        s == matchStartIndex + indexOf(afterTextFull, m0)
        e == s + Len(m0)
    IN  IF m.index >= 0 /\ isUnused(used, s, e)
        THEN [quantity |-> words[i].value, start |-> s, end |-> e]
        ELSE wordAfter(words, i + 1, afterTextFull, matchStartIndex, used)

\* A test that lets a written zero through.
usableOrZero(parsed) == parsed >= 0

\* !Number.isNaN(parsed) && parsed > 0: parseInt of digits is never NaN.
usable(parsed) == parsed > 0

detectQuantityNear(txt, matchStartIndex, used) ==
  LET windowStart == Max(0, matchStartIndex - MAX_BEFORE)
      windowEnd == Min(Len(txt), matchStartIndex + MAX_AFTER)
      beforeTextFull == slice(txt, windowStart, matchStartIndex)
      afterTextFull == slice(txt, matchStartIndex, windowEnd)
      \* 1) /(\d+)\s*$/ on the text before the item
      beforeNum == Search(ReBeforeNum, beforeTextFull, 0)
      bStart == matchStartIndex - (beforeNum.end - beforeNum.index)
      bParsed == parseInt(slice(beforeTextFull, beforeNum.index,
                     beforeNum.index + RunLen(Digit, beforeTextFull, beforeNum.index, -1)))
      byWordBefore == wordBefore(tamilNumberWords, 1, beforeTextFull, matchStartIndex, used)
      \* 3) /^\s*(\d+)/ on the text from the start of the item
      afterNum == Search(ReAfterNum, afterTextFull, 0)
      aSpaces == RunLen(WhiteSpace, afterTextFull, 0, -1)
      aDigits == slice(afterTextFull, aSpaces, afterNum.end)
      aStart == matchStartIndex + indexOf(afterTextFull, aDigits)
      aEnd == aStart + Len(aDigits)
      aParsed == parseInt(aDigits)
  IN  IF beforeNum.index >= 0 /\ usable(bParsed) /\ isUnused(used, bStart, matchStartIndex)
      THEN [quantity |-> bParsed, start |-> bStart, end |-> matchStartIndex]
      ELSE IF byWordBefore.start >= 0 THEN byWordBefore
      ELSE IF afterNum.index >= 0 /\ usable(aParsed) /\ isUnused(used, aStart, aEnd)
      THEN [quantity |-> aParsed, start |-> aStart, end |-> aEnd]
      ELSE wordAfter(tamilNumberWords, 1, afterTextFull, matchStartIndex, used)

----------------------------------------------------------------------------
(* buildMenuResolver                                                       *)

\* has(item, re): the pattern is found in the lower-cased name or in the
\* lower-cased Tamil name.
has(item, re) ==
  \E s \in {toLowerCase(item.name), toLowerCase(item.tamilName)} : Test(re, s)

\* The predicate of the switch case of aliasKey, in controllers/billController.js;
\* FALSE for a key the switch does not list (default: return undefined).
predicateBill(aliasKey, item) ==
  CASE aliasKey = KeyVegKothuParotta ->
         has(item, ReKothuParotta) /\ ~ has(item, ReEggOrChicken)
    [] aliasKey = KeyEggKothuParotta -> has(item, ReEgg) /\ has(item, ReKothuParotta)
    [] aliasKey = KeyChickenKothuParotta -> has(item, ReChicken) /\ has(item, ReKothuParotta)
    [] aliasKey = KeySetDosa1Pcs -> has(item, ReSetDosa)
    [] aliasKey = KeyGheeDosa -> has(item, ReGheeDosa) \/ has(item, ReGheeDosaTa)
    [] aliasKey = KeyMasalaDosa -> has(item, ReMasalaDosa) \/ has(item, ReMasalaDosaTa)
    [] aliasKey = KeyEggDosa -> has(item, ReEggDosa) \/ has(item, ReEggDosaTa)
    [] aliasKey = KeyPlainDosa ->
         /\ has(item, ReDosaWord)
         /\ ~ has(item, RePlainExclude)
         /\ ~ has(item, RePlainExcludeTa)
    [] aliasKey = KeyParotta2Pcs -> has(item, ReParotta) /\ ~ has(item, ReParottaExclude)
    [] aliasKey = KeyKalakki -> has(item, ReKalakki) \/ has(item, ReKalakkiTa)
    [] aliasKey = KeyOmelette -> has(item, ReOmelet) \/ has(item, ReOmeletTa)
    [] aliasKey = KeyIdly4Pcs -> has(item, ReIdli) \/ has(item, ReIdliTa)
    [] aliasKey = KeyChickenBiryani -> has(item, ReChicken) /\ has(item, ReBiryani)
    [] OTHER -> FALSE

\* The same in utils/similarity.js, whose switch has three more cases.
predicateSim(aliasKey, item) ==
  CASE aliasKey = KeyEggParotta -> has(item, ReEgg) /\ has(item, ReParottaAny)
    [] aliasKey = KeyTea -> has(item, ReTeaWord) \/ has(item, ReTeaTa)
    [] aliasKey = KeyCurdRice -> has(item, ReCurdRice) \/ has(item, ReCurdRiceTa)
    [] OTHER -> predicateBill(aliasKey, item)

\* menuItems.find(predicate) as an index into menuItems, 0 for undefined;
\* holds[i] is predicate(menuItems[i]).
findIndex(menu, holds) ==
  LET hit == { i \in DOMAIN menu : holds[i] }
  IN  IF hit = {} THEN 0 ELSE CHOOSE i \in hit : \A j \in hit : i <= j

\* The exact canonical-name match that utils/similarity.js tries first.
exactIndex(aliasKey, menu) ==
  findIndex(menu, [i \in DOMAIN menu |-> toLowerCase(menu[i].name) = toLowerCase(aliasKey)])

\* by(predicate) with the predicate of the alias's case.
byBill(aliasKey, menu) ==
  findIndex(menu, [i \in DOMAIN menu |-> predicateBill(aliasKey, menu[i])])

bySim(aliasKey, menu) ==
  findIndex(menu, [i \in DOMAIN menu |-> predicateSim(aliasKey, menu[i])])

\* resolve(aliasKey) of buildMenuResolver(menu): the index of the entry it
\* returns, 0 when it returns undefined.
resolve(v, aliasKey, menu) ==
  IF v = "bill" THEN byBill(aliasKey, menu)
  ELSE IF exactIndex(aliasKey, menu) > 0 THEN exactIndex(aliasKey, menu)
  ELSE bySim(aliasKey, menu)
\* "dosa"
WDosa ==
  <<100, 111, 115, 97>>

\* "\u0BA4\u0BCB\u0B9A\u0BC8"
WTosai ==
  <<2980, 3019, 2970, 3016>>

\* "\u0BA4\u0BC7\u0BBE\u0B9A\u0BC8"
WTosaiDecomposed ==
  <<2980, 3015, 3006, 2970, 3016>>

\* "egg kothu parotta"
WEggKothuParotta ==
  <<101, 103, 103, 32, 107, 111, 116, 104, 117, 32, 112, 97, 114, 111, 116, 116, 97>>

\* "omlette"
WOmlette ==
  <<111, 109, 108, 101, 116, 116, 101>>

\* "masala dosa"
WMasalaDosa ==
  <<109, 97, 115, 97, 108, 97, 32, 100, 111, 115, 97>>

\* "kothu parotta"
WKothuParotta ==
  <<107, 111, 116, 104, 117, 32, 112, 97, 114, 111, 116, 116, 97>>

\* "hello"
WHello ==
  <<104, 101, 108, 108, 111>>

\* { name: 'Plain Dosa', tamilName: '\u0BAA\u0BBF\u0BB3\u0BC8\u0BA9\u0BCD \u0BA4\u0BCB\u0B9A\u0BC8', price: 30 }
ItemPlainDosa ==
  [name |-> <<80, 108, 97, 105, 110, 32, 68, 111, 115, 97>>,
   tamilName |-> <<2986, 3007, 2995, 3016, 2985, 3021, 32, 2980, 3019, 2970, 3016>>,
   price |-> 30]

\* { name: 'Masala Dosa', tamilName: '\u0BAE\u0B9A\u0BBE\u0BB2\u0BBE \u0BA4\u0BCB\u0B9A\u0BC8', price: 60 }
ItemMasalaDosa ==
  [name |-> <<77, 97, 115, 97, 108, 97, 32, 68, 111, 115, 97>>,
   tamilName |-> <<2990, 2970, 3006, 2994, 3006, 32, 2980, 3019, 2970, 3016>>,
   price |-> 60]

\* { name: 'Ghee Masala Dosa', tamilName: '\u0BA8\u0BC6\u0BAF\u0BCD \u0BAE\u0B9A\u0BBE\u0BB2\u0BBE \u0BA4\u0BCB\u0B9A\u0BC8', price: 80 }
ItemGheeMasalaDosa ==
  [name |-> <<71, 104, 101, 101, 32, 77, 97, 115, 97, 108, 97, 32, 68, 111, 115, 97>>,
   tamilName |-> <<2984, 3014, 2991, 3021, 32, 2990, 2970, 3006, 2994, 3006, 32, 2980, 3019, 2970, 3016>>,
   price |-> 80]

\* { name: 'Parotta (2 pcs)', tamilName: '\u0BAA\u0BB0\u0BCB\u0B9F\u0BCD\u0B9F\u0BBE', price: 40 }
ItemParotta ==
  [name |-> <<80, 97, 114, 111, 116, 116, 97, 32, 40, 50, 32, 112, 99, 115, 41>>,
   tamilName |-> <<2986, 2992, 3019, 2975, 3021, 2975, 3006>>,
   price |-> 40]

\* { name: 'Veg Kothu Parotta', tamilName: '\u0B95\u0BBE\u0BAF\u0BCD\u0B95\u0BB1\u0BBF \u0B95\u0BCA\u0BA4\u0BCD\u0BA4\u0BC1 \u0BAA\u0BB0\u0BCB\u0B9F\u0BCD\u0B9F\u0BBE', price: 60 }
ItemVegKothuParotta ==
  [name |-> <<86, 101, 103, 32, 75, 111, 116, 104, 117, 32, 80, 97, 114, 111, 116, 116, 97>>,
   tamilName |-> <<2965, 3006, 2991, 3021, 2965, 2993, 3007, 32, 2965, 3018, 2980, 3021, 2980, 3009, 32, 2986, 2992, 3019, 2975, 3021, 2975, 3006>>,
   price |-> 60]

\* { name: 'Egg Kothu Parotta', tamilName: '\u0BAE\u0BC1\u0B9F\u0BCD\u0B9F\u0BC8 \u0B95\u0BCA\u0BA4\u0BCD\u0BA4\u0BC1 \u0BAA\u0BB0\u0BCB\u0B9F\u0BCD\u0B9F\u0BBE', price: 60 }
ItemEggKothuParotta ==
  [name |-> <<69, 103, 103, 32, 75, 111, 116, 104, 117, 32, 80, 97, 114, 111, 116, 116, 97>>,
   tamilName |-> <<2990, 3009, 2975, 3021, 2975, 3016, 32, 2965, 3018, 2980, 3021, 2980, 3009, 32, 2986, 2992, 3019, 2975, 3021, 2975, 3006>>,
   price |-> 60]

\* { name: 'Omelette', tamilName: '\u0B86\u0BAE\u0BCD\u0BB2\u0BC6\u0B9F\u0BCD', price: 20 }
ItemOmelette ==
  [name |-> <<79, 109, 101, 108, 101, 116, 116, 101>>,
   tamilName |-> <<2950, 2990, 3021, 2994, 3014, 2975, 3021>>,
   price |-> 20]

\* { name: 'Double Omelette', tamilName: '\u0B9F\u0BAA\u0BC1\u0BB3\u0BCD \u0B86\u0BAE\u0BCD\u0BB2\u0BC6\u0B9F\u0BCD', price: 40 }
ItemDoubleOmelette ==
  [name |-> <<68, 111, 117, 98, 108, 101, 32, 79, 109, 101, 108, 101, 116, 116, 101>>,
   tamilName |-> <<2975, 2986, 3009, 2995, 3021, 32, 2950, 2990, 3021, 2994, 3014, 2975, 3021>>,
   price |-> 40]

\* "\u0BB0\u0BC6\u0BA3\u0BCD\u0B9F\u0BC1 \u0B9A\u0BBF\u0BB5\u0BAA\u0BCD\u0BAA\u0BC1 \u0B95\u0BAE\u0BCD\u0BAA\u0BBF 50 \u0BB0\u0BC2\u0BAA\u0BBE\u0BAF\u0BCD, \u0BAE\u0BC2\u0BA3\u0BC1 \u0B9A\u0BC6\u0BB0\u0BC1\u0BAA\u0BCD\u0BAA\u0BC1 200 \u0BB0\u0BC2, \u0B92\u0BB0\u0BC1 \u0B9A\u0BB0\u0BBF 500 \u0BB0\u0BC2\u0BAA\u0BBE\u0BAF\u0BCD"
WShopOrder ==
  <<2992, 3014, 2979, 3021, 2975, 3009, 32, 2970, 3007, 2997, 2986, 3021, 2986, 3009, 32, 2965, 2990, 3021, 2986, 3007, 32, 53, 48, 32, 2992, 3010, 2986, 3006, 2991, 3021, 44, 32, 2990, 3010, 2979, 3009, 32, 2970, 3014, 2992, 3009, 2986, 3021, 2986, 3009, 32, 50, 48, 48, 32, 2992, 3010, 44, 32, 2962, 2992, 3009, 32, 2970, 2992, 3007, 32, 53, 48, 48, 32, 2992, 3010, 2986, 3006, 2991, 3021>>

\* { name: 'Red Wires', tamilName: '\u0B9A\u0BBF\u0BB5\u0BAA\u0BCD\u0BAA\u0BC1 \u0B95\u0BAE\u0BCD\u0BAA\u0BBF', price: 50 }
ItemRedWires ==
  [name |-> <<82, 101, 100, 32, 87, 105, 114, 101, 115>>,
   tamilName |-> <<2970, 3007, 2997, 2986, 3021, 2986, 3009, 32, 2965, 2990, 3021, 2986, 3007>>,
   price |-> 50]

\* { name: 'Shoes', tamilName: '\u0B9A\u0BC6\u0BB0\u0BC1\u0BAA\u0BCD\u0BAA\u0BC1', price: 200 }
ItemShoes ==
  [name |-> <<83, 104, 111, 101, 115>>,
   tamilName |-> <<2970, 3014, 2992, 3009, 2986, 3021, 2986, 3009>>,
   price |-> 200]

\* { name: 'Saree', tamilName: '\u0B9A\u0BB0\u0BBF', price: 500 }
ItemSaree ==
  [name |-> <<83, 97, 114, 101, 101>>,
   tamilName |-> <<2970, 2992, 3007>>,
   price |-> 500]

\* The number-word for two the spec's example uses (the fourth lexicon entry).
WRendu == TAMIL_NUMBER_MAP[4].word

----------------------------------------------------------------------------
(* The calls the model runs: what the customer says and the catalog.       *)

\* Longest order, in mentions.
MaxMentions == 2

\* Decimal digits of a number 1 .. 99.
digits(n) == IF n < 10 THEN <<48 + n>> ELSE <<48 + (n \div 10), 48 + (n % 10)>>

\* A mention: the words said, the alias they mean and the quantity meant.
Mention(chars, alias, qty) == [chars |-> chars, alias |-> alias, qty |-> qty]

before(q, w) == q \o <<32>> \o w

\* What an order is made of.
Mentions ==
  { Mention(before(digits(2), WDosa), KeyPlainDosa, 2),
    Mention(before(digits(3), WDosa), KeyPlainDosa, 3),
    Mention(before(digits(2), WTosai), KeyPlainDosa, 2),
    Mention(before(WRendu, WTosai), KeyPlainDosa, 2),
    Mention(before(digits(3), WTosaiDecomposed), KeyPlainDosa, 3),
    Mention(before(WDosa, digits(3)), KeyPlainDosa, 3),
    Mention(WEggKothuParotta, KeyEggKothuParotta, 1),
    Mention(before(digits(2), WEggKothuParotta), KeyEggKothuParotta, 2),
    Mention(before(digits(2), WOmlette), KeyOmelette, 2),
    Mention(WMasalaDosa, KeyMasalaDosa, 1),
    Mention(WHello, <<>>, 0) }

\* The item words said with a number of the lexicon.
ItemWords ==
  { [chars |-> WDosa, alias |-> KeyPlainDosa],
    [chars |-> WTosai, alias |-> KeyPlainDosa],
    [chars |-> WOmlette, alias |-> KeyOmelette] }

\* One item with each word of the lexicon, and with each number in digits.
LexiconMentions ==
  { Mention(before(TAMIL_NUMBER_MAP[i].word, w.chars), w.alias, TAMIL_NUMBER_MAP[i].value) :
      i \in DOMAIN TAMIL_NUMBER_MAP, w \in ItemWords }
  \cup { Mention(before(digits(n), w.chars), w.alias, n) : n \in 1 .. 10, w \in ItemWords }

\* One item with its quantity said after it, in digits and as a word.
TrailingMentions ==
  { Mention(before(WDosa, digits(3)), KeyPlainDosa, 3),
    Mention(before(WTosai, WRendu), KeyPlainDosa, 2) }

\* One item with a zero written before it or after it.
ZeroMentions ==
  { Mention(before(digits(0), WDosa), KeyPlainDosa, 0),
    Mention(before(WDosa, digits(0)), KeyPlainDosa, 0),
    Mention(before(digits(0), WOmlette), KeyOmelette, 0) }

\* One item said with a qualifier, with and without a quantity.
QualifierMentions ==
  { Mention(WKothuParotta, KeyVegKothuParotta, 1),
    Mention(before(digits(2), WKothuParotta), KeyVegKothuParotta, 2),
    Mention(before(digits(2), WMasalaDosa), KeyMasalaDosa, 2) }

RECURSIVE SeqsUpTo(_, _)
SeqsUpTo(S, n) ==
  IF n = 0 THEN {<<>>}
  ELSE LET shorter == SeqsUpTo(S, n - 1)
       IN  shorter \cup { Append(s, x) : s \in shorter, x \in S }

Orders ==
  (SeqsUpTo(Mentions, MaxMentions) \ {<<>>})
  \cup { <<m>> : m \in LexiconMentions \cup TrailingMentions \cup ZeroMentions
                      \cup QualifierMentions }

\* The words of an order, joined by single spaces.
RECURSIVE render(_)
render(o) ==
  IF Len(o) = 0 THEN <<>>
  ELSE IF Len(o) = 1 THEN o[1].chars
  ELSE o[1].chars \o <<32>> \o render(Tail(o))

\* Inputs that are no order: no string, an empty string, and strings of
\* punctuation, spaces and zero-width characters only.
OtherInputs ==
  { JsNull, JsUndefined, JsObject, Num(0), Num(5), Str(<<>>), Str(<<32>>),
    Str(<<44, 32>>), Str(<<8204>>), Str(<<32, 46, 8203, 32>>) }

\* Catalogs: an excerpt of DEFAULT_MENU_ITEMS in its order, and the same shop
\* when it does not stock two of the items.
CatalogFull ==
  << ItemPlainDosa, ItemMasalaDosa, ItemParotta, ItemVegKothuParotta,
     ItemEggKothuParotta, ItemOmelette >>
CatalogPartial == << ItemPlainDosa, ItemMasalaDosa, ItemParotta, ItemEggKothuParotta >>
Catalogs == {CatalogFull, CatalogPartial}

\* The order of the generic billing example, two red wires, three shoes and
\* one saree with their prices, said as WShopOrder, and a catalog with the
\* three items.
ShopOrder ==
  << Mention(ItemRedWires.tamilName, ItemRedWires.name, 2),
     Mention(ItemShoes.tamilName, ItemShoes.name, 3),
     Mention(ItemSaree.tamilName, ItemSaree.name, 1) >>
CatalogShop == <<ItemRedWires, ItemShoes, ItemSaree>>

----------------------------------------------------------------------------
(* parseOrderWithFuzzyMap, one action per step.                            *)

NoCall ==
  [valid |-> FALSE, input |-> JsNull, menuItems |-> <<>>, text |-> <<>>,
   orderMap |-> <<>>, usedRanges |-> <<>>, items |-> <<>>, calls |-> 0]

\* The generic handler before a request comes in.
NoGeneric ==
  [voiceInput |-> JsUndefined, pc |-> "none", reply |-> <<>>, llm |-> 0,
   responses |-> <<>>, bill |-> <<>>]

\* The two handlers of a process that only parses: no request comes in.
ServerIdle ==
  /\ requests = <<>>
  /\ LLM_CACHE = <<>>
  /\ BILLS = <<>>
  /\ llmCalls = <<>>
  /\ genAI = TRUE
  /\ generic = NoGeneric

\* The locals of a call that has not started.
Fresh ==
  /\ pc = "start"
  /\ text = <<>>
  /\ aliasIdx = 1
  /\ patIdx = 1
  /\ lastIndex = 0
  /\ match = NoMatch
  /\ usedRanges = <<>>
  /\ orderMap = <<>>
  /\ emitIdx = 0
  /\ items = <<>>
  /\ lastQty = DefaultQuantity
  /\ counted = 0

Init ==
  /\ variant \in {"bill", "sim"}
  /\ \/ /\ \/ \E o \in Orders : order = o /\ input = Str(render(o))
           \/ order = <<>> /\ input \in OtherInputs
        /\ menuItems \in Catalogs
     \/ order = ShopOrder /\ input = Str(WShopOrder) /\ menuItems = CatalogShop
  /\ prev = NoCall
  /\ Fresh
  /\ ServerIdle

\* A parser without its first guard: the value goes to preprocessText as it is.
ReturnNoInputUnguarded ==
  /\ pc = "start"
  /\ Falsy(input) \/ input.type # "string"
  /\ text' = preprocessText(input)
  /\ pc' = "done"
  /\ UNCHANGED <<variant, input, order, menuItems, aliasIdx, patIdx, lastIndex,
                 match, usedRanges, orderMap, emitIdx, items, lastQty, counted, prev, server>>

\* if (!voiceInputText || typeof voiceInputText !== 'string') return [];
ReturnNoInput ==
  /\ pc = "start"
  /\ Falsy(input) \/ input.type # "string"
  /\ pc' = "done"
  /\ UNCHANGED <<variant, input, order, menuItems, text, aliasIdx, patIdx, lastIndex,
                 match, usedRanges, orderMap, emitIdx, items, lastQty, counted, prev, server>>

\* const text = preprocessText(voiceInputText); if (!text) return [];
ReturnNoText ==
  /\ pc = "start"
  /\ ~ Falsy(input) /\ input.type = "string"
  /\ Len(preprocessText(input)) = 0
  /\ pc' = "done"
  /\ UNCHANGED <<variant, input, order, menuItems, text, aliasIdx, patIdx, lastIndex,
                 match, usedRanges, orderMap, emitIdx, items, lastQty, counted, prev, server>>

\* The call gets past its two guards and enters the loops over the table.
BeginScan ==
  /\ pc = "start"
  /\ ~ Falsy(input) /\ input.type = "string"
  /\ \E t \in {preprocessText(input)} : Len(t) > 0 /\ text' = t
  /\ pc' = "exec"
  /\ UNCHANGED <<variant, input, order, menuItems, aliasIdx, patIdx, lastIndex,
                 match, usedRanges, orderMap, emitIdx, items, lastQty, counted, prev, server>>

\* The next (alias, pattern, match) of the three nested loops, starting with
\* pattern p of alias a scanned from offset from: a pattern with no further
\* match ends its while loop and the next pattern starts at offset 0.
RECURSIVE nextMatch(_, _, _, _, _)
\* The loops stop at the match m of pattern p of alias a, or go on.
matchOrNext(table, a, p, txt, m) ==
  IF m.index >= 0 THEN [aliasIdx |-> a, patIdx |-> p, m |-> m]
  ELSE nextMatch(table, a, p + 1, 0, txt)

nextMatch(table, a, p, from, txt) ==
  IF a > Len(table) THEN [aliasIdx |-> a, patIdx |-> 1, m |-> NoMatch]
  ELSE IF p > Len(table[a].pats) THEN nextMatch(table, a + 1, 1, 0, txt)
  ELSE matchOrNext(table, a, p, txt, Search(table[a].pats[p], txt, from))

\* A scan whose regex is left where the match starts: exec finds the same
\* match again.
loopToSameMatch(n) ==
  /\ aliasIdx' = n.aliasIdx
  /\ patIdx' = n.patIdx
  /\ match' = n.m
  /\ lastIndex' = IF n.m.index >= 0 THEN n.m.index ELSE 0
  /\ pc' = IF n.m.index >= 0 THEN "body" ELSE "emit"

\* while ((match = regex.exec(text)) !== null): the loops advance to the next
\* match, or run out of patterns; exec leaves lastIndex at the end of the
\* match, and at 0 when it finds none.
loopTo(n) ==
  /\ aliasIdx' = n.aliasIdx
  /\ patIdx' = n.patIdx
  /\ match' = n.m
  /\ lastIndex' = IF n.m.index >= 0 THEN n.m.end ELSE 0
  /\ pc' = IF n.m.index >= 0 THEN "body" ELSE "emit"

Exec ==
  /\ pc = "exec"
  /\ loopTo(nextMatch(getSynonymPatterns(variant), aliasIdx, patIdx, lastIndex, text))
  /\ UNCHANGED <<variant, input, order, menuItems, text, usedRanges, orderMap,
                 emitIdx, items, lastQty, counted, prev, server>>

aliasKeyAt(v, a) == getSynonymPatterns(v)[a].key

\* shouldSkip: an exclusion pattern of the alias matches in the window
\* before the match.
shouldSkip(v, aliasKey, txt, index) ==
  LET skipQualifiers == QUALIFIER_SKIP(v, aliasKey)
      windowStart == Max(0, index - SkipWindow(v))
      windowText == slice(txt, windowStart, index)
  IN  \E i \in DOMAIN skipQualifiers : Test(skipQualifiers[i], windowText)

\* A parser that counts the match although a qualifier stands before it.
SkipStillCounts ==
  /\ pc = "body"
  /\ shouldSkip(variant, aliasKeyAt(variant, aliasIdx), text, match.index)
  /\ orderMap' = Append(orderMap, [key |-> aliasKeyAt(variant, aliasIdx), quantity |-> 1])
  /\ pc' = "exec"
  /\ UNCHANGED <<variant, input, order, menuItems, text, aliasIdx, patIdx, lastIndex,
                 match, usedRanges, emitIdx, items, lastQty, counted, prev, server>>

\* if (shouldSkip) continue;
Skip ==
  /\ pc = "body"
  /\ shouldSkip(variant, aliasKeyAt(variant, aliasIdx), text, match.index)
  /\ pc' = "exec"
  /\ UNCHANGED <<variant, input, order, menuItems, text, aliasIdx, patIdx, lastIndex,
                 match, usedRanges, orderMap, emitIdx, items, lastQty, counted, prev, server>>

\* A list of counted matches in place of the map: no totals per alias.
mapAppend(map, key, quantity) == Append(map, [key |-> key, quantity |-> quantity])

\* orderMap.set(aliasKey, (orderMap.get(aliasKey) || 0) + quantity)
mapAdd(map, key, quantity) ==
  IF \E i \in DOMAIN map : map[i].key = key
  THEN [i \in DOMAIN map |->
          IF map[i].key = key
          THEN [key |-> key, quantity |-> map[i].quantity + quantity]
          ELSE map[i]]
  ELSE Append(map, [key |-> key, quantity |-> quantity])

\* const { quantity, start, end } = q; the span is pushed when there is one
\* and the alias's total grows.
countWith(q) ==
  /\ lastQty' = q
  /\ counted' = counted + 1
  /\ usedRanges' = IF q.start >= 0 /\ q.end > q.start
                   THEN Append(usedRanges, [start |-> q.start, end |-> q.end])
                   ELSE usedRanges
  /\ orderMap' = mapAdd(orderMap, aliasKeyAt(variant, aliasIdx), q.quantity)

\* The match is counted: its quantity is looked for, the span is consumed
\* and the alias's total grows.
Count ==
  /\ pc = "body"
  /\ ~ shouldSkip(variant, aliasKeyAt(variant, aliasIdx), text, match.index)
  /\ countWith(detectQuantityNear(text, match.index, usedRanges))
  /\ pc' = "exec"
  /\ UNCHANGED <<variant, input, order, menuItems, text, aliasIdx, patIdx, lastIndex,
                 match, emitIdx, items, prev, server>>

\* A parser that gives up the whole bill at the first alias it cannot resolve.
DropAliasAborts ==
  /\ pc = "emit"
  /\ emitIdx < Len(orderMap)
  /\ resolve(variant, orderMap[emitIdx + 1].key, menuItems) = 0
  /\ emitIdx' = Len(orderMap)
  /\ items' = <<>>
  /\ UNCHANGED <<variant, input, order, menuItems, pc, text, aliasIdx, patIdx, lastIndex,
                 match, usedRanges, orderMap, lastQty, counted, prev, server>>

\* if (!menuItem) continue;
DropAlias ==
  /\ pc = "emit"
  /\ emitIdx < Len(orderMap)
  /\ resolve(variant, orderMap[emitIdx + 1].key, menuItems) = 0
  /\ emitIdx' = emitIdx + 1
  /\ UNCHANGED <<variant, input, order, menuItems, pc, text, aliasIdx, patIdx, lastIndex,
                 match, usedRanges, orderMap, items, lastQty, counted, prev, server>>

\* The line items.push builds from the resolved entry and the quantity.
orderLine(menuItem, quantity) ==
  [itemName |-> menuItem.name, quantity |-> quantity,
   unitPrice |-> menuItem.price, totalPrice |-> menuItem.price * quantity]

\* The line of the entry at index r, if the alias resolved (r > 0).
pushLine(r) ==
  /\ r > 0
  /\ items' = Append(items, orderLine(menuItems[r], orderMap[emitIdx + 1].quantity))

EmitLine ==
  /\ pc = "emit"
  /\ emitIdx < Len(orderMap)
  /\ pushLine(resolve(variant, orderMap[emitIdx + 1].key, menuItems))
  /\ emitIdx' = emitIdx + 1
  /\ UNCHANGED <<variant, input, order, menuItems, pc, text, aliasIdx, patIdx, lastIndex,
                 match, usedRanges, orderMap, lastQty, counted, prev, server>>

\* return items;
Return ==
  /\ pc = "emit"
  /\ emitIdx = Len(orderMap)
  /\ pc' = "done"
  /\ UNCHANGED <<variant, input, order, menuItems, text, aliasIdx, patIdx, lastIndex,
                 match, usedRanges, orderMap, emitIdx, items, lastQty, counted, prev, server>>

\* What a finished call leaves for the caller to compare.
thisCall ==
  [valid |-> TRUE, input |-> input, menuItems |-> menuItems, text |-> text,
   orderMap |-> orderMap, usedRanges |-> usedRanges, items |-> items, calls |-> 1]

\* The caller's next call, with fresh locals.
nextCall(in, menu) ==
  /\ pc = "done"
  /\ prev = NoCall
  /\ prev' = thisCall
  /\ input' = in
  /\ menuItems' = menu
  /\ pc' = "start"
  /\ text' = <<>>
  /\ aliasIdx' = 1
  /\ patIdx' = 1
  /\ lastIndex' = 0
  /\ match' = NoMatch
  /\ usedRanges' = <<>>
  /\ orderMap' = <<>>
  /\ emitIdx' = 0
  /\ items' = <<>>
  /\ lastQty' = DefaultQuantity
  /\ counted' = 0
  /\ UNCHANGED <<variant, order, server>>

\* The caller parses the same words against another catalog.
CallWithCatalog ==
  \E menu \in Catalogs \ {menuItems} : nextCall(input, menu)

\* The caller parses normalize(t) after t: parseOrder(normalize(t), c).
CallNormalized ==
  /\ input.type = "string"
  /\ \E t \in {preprocessText(input)} : nextCall(Str(t), menuItems)

Next ==
  \/ ReturnNoInput
  \/ ReturnNoText
  \/ BeginScan
  \/ Exec
  \/ Skip
  \/ Count
  \/ DropAlias
  \/ EmitLine
  \/ Return
  \/ CallWithCatalog
  \/ CallNormalized

Spec == Init /\ [][Next]_vars

\* No step is left: the call has returned and the caller has made its second
\* call. In every other state a step of Next is enabled: the guards of the
\* actions at "start", at "body" and at "emit" cover all cases, Exec has no
\* guard, and after the first call the caller calls again.
Stopped == pc = "done" /\ prev # NoCall

\* The parser is synchronous code on one thread: a call that has a step left
\* takes it. This is WF_vars(Next), []<>~ENABLED <<Next>>_vars \/
\* []<><<Next>>_vars, with the enabledness of Next written out as ~Stopped.
SpecTerminates == Init /\ [][Next]_vars /\ ([]<>Stopped \/ []<><<Next>>_vars)


----------------------------------------------------------------------------
(* The resolver on catalogs in any order: one order, parsed against every  *)
(* arrangement of up to MaxCatalog entries of a shop's dosas and omelettes. *)

\* Largest catalog, in entries.
MaxCatalog == 3

ResolverItems ==
  { ItemPlainDosa, ItemMasalaDosa, ItemGheeMasalaDosa, ItemOmelette, ItemDoubleOmelette }

Range(s) == { s[i] : i \in DOMAIN s }

\* The sequences of at most n different elements of S.
RECURSIVE Arrangements(_, _)
Arrangements(S, n) ==
  IF n = 0 THEN {<<>>}
  ELSE LET shorter == Arrangements(S, n - 1)
       IN  shorter \cup UNION { { Append(s, x) : x \in S \ Range(s) } : s \in shorter }

ResolverCatalogs == Arrangements(ResolverItems, MaxCatalog)

ResolverOrders ==
  { <<Mention(WMasalaDosa, KeyMasalaDosa, 1)>>,
    <<Mention(before(digits(2), WDosa), KeyPlainDosa, 2)>>,
    <<Mention(before(digits(2), WOmlette), KeyOmelette, 2)>>,
    <<Mention(WMasalaDosa, KeyMasalaDosa, 1), Mention(before(digits(2), WOmlette), KeyOmelette, 2)>> }

InitResolve ==
  /\ variant \in {"bill", "sim"}
  /\ \E o \in ResolverOrders : order = o /\ input = Str(render(o))
  /\ menuItems \in ResolverCatalogs
  /\ prev = NoCall
  /\ Fresh
  /\ ServerIdle

NextResolve ==
  \/ BeginScan
  \/ Exec
  \/ Skip
  \/ Count
  \/ DropAlias
  \/ EmitLine
  \/ Return

SpecResolve == InitResolve /\ [][NextResolve]_vars

----------------------------------------------------------------------------
(* generateBillFromVoice of controllers/billController.js: the in-memory   *)
(* handler, its LLM parser and its cache.  A handler runs from one await   *)
(* to the next without interruption, so each action is one such stretch.   *)

\* Requests in flight at once.
MaxRequests == 2
RequestIds == 1 .. MaxRequests

\* Longest list of lines in an LLM answer.
MaxLines == 2

\* const DEFAULT_MENU_ITEMS: the excerpt the catalogs are made of.
DEFAULT_MENU_ITEMS == CatalogFull

\* i.toString(36) for i < 36, as one code unit.
toString36(i) == IF i < 10 THEN <<48 + i>> ELSE <<87 + i>>

\* MENU_CATALOG.list: id 'M' + i.toString(36) for the entry at 0-based index i.
MENU_CATALOG ==
  [i \in DOMAIN DEFAULT_MENU_ITEMS |->
     [id |-> <<77>> \o toString36(i - 1), name |-> DEFAULT_MENU_ITEMS[i].name,
      price |-> DEFAULT_MENU_ITEMS[i].price]]

\* MENU_CATALOG.byId.get(id): the index of the entry, 0 for undefined.
byId(id) ==
  IF \E i \in DOMAIN MENU_CATALOG : MENU_CATALOG[i].id = id
  THEN CHOOSE i \in DOMAIN MENU_CATALOG : MENU_CATALOG[i].id = id
  ELSE 0

\* A line as the LLM wrote it: the id is a JavaScript value, the quantity a
\* number counted in halves (3 is 1.5) or no finite number.
RawLine(id, halves) == [id |-> id, finite |-> TRUE, halves |-> halves]
RawLineNaN(id) == [id |-> id, finite |-> FALSE, halves |-> 0]

\* What the LLM may write as a line: known ids, an id with spaces around it,
\* an id no entry has, an id that is no string, quantities that are whole,
\* fractional, zero, negative or not a number.
RawLines ==
  { RawLine(Str(<<77, 48>>), 4), RawLine(Str(<<32, 77, 48, 32>>), 3),
    RawLine(Str(<<77, 49>>), 0), RawLine(Str(<<77, 122>>), 2),
    RawLine(Num(1), 2), RawLineNaN(Str(<<77, 49>>)) }

\* What the awaited model.generateContent gives: text that JSON.parse turns
\* into an object with a lines array, or text that is empty or no such JSON.
LlmReplies ==
  { [json |-> FALSE, lines |-> <<>>] }
  \cup { [json |-> TRUE, lines |-> ls] : ls \in SeqsUpTo(RawLines, MaxLines) }

\* The value null of let parsed.
NullParse == [isNull |-> TRUE, lines |-> <<>>]

\* A filter that keeps the quantity as the LLM wrote it, rounded down.
RECURSIVE sanitizeUnclamped(_)
sanitizeUnclamped(lines) ==
  IF Len(lines) = 0 THEN <<>>
  ELSE LET l == Head(lines)
       IN  IF l.id.type = "string" /\ l.finite
           THEN <<[id |-> trim(l.id.chars), qty |-> l.halves \div 2]>>
                  \o sanitizeUnclamped(Tail(lines))
           ELSE sanitizeUnclamped(Tail(lines))

\* .filter(l => l && typeof l.id === 'string' && Number.isFinite(l.qty))
\* .map(l => ({ id: l.id.trim(), qty: Math.max(1, Math.floor(l.qty)) }))
RECURSIVE sanitize(_)
sanitize(lines) ==
  IF Len(lines) = 0 THEN <<>>
  ELSE LET l == Head(lines)
       IN  IF l.id.type = "string" /\ l.finite
           THEN <<[id |-> trim(l.id.chars), qty |-> Max(1, l.halves \div 2)]>>
                  \o sanitize(Tail(lines))
           ELSE sanitize(Tail(lines))

\* llmParseToIds after its await: null, or { processed, lines, metrics }.
llmParseToIds(reply) ==
  IF ~ reply.json THEN NullParse
  ELSE [isNull |-> FALSE, lines |-> sanitize(reply.lines)]

\* cacheKeyFromInput(s): preprocessText((s || '').toLowerCase())
cacheKeyFromInput(s) ==
  preprocessText(Str(toLowerCase(IF Falsy(s) THEN <<>> ELSE s.chars)))

\* LLM_CACHE.get(key): the entry's index, 0 for undefined.
cacheGet(cache, key) ==
  IF \E i \in DOMAIN cache : cache[i].key = key
  THEN CHOOSE i \in DOMAIN cache : cache[i].key = key
  ELSE 0

\* LLM_CACHE.set(key, parsed)
cacheSet(cache, key, parsed) ==
  IF cacheGet(cache, key) > 0
  THEN [i \in DOMAIN cache |->
          IF cache[i].key = key THEN [key |-> key, parsed |-> parsed] ELSE cache[i]]
  ELSE Append(cache, [key |-> key, parsed |-> parsed])

\* for (const { id, qty } of parsed.lines): the quantities per entry name,
\* lines with an id no entry has skipped.
RECURSIVE aggregate(_, _)
aggregate(lines, agg) ==
  IF Len(lines) = 0 THEN agg
  ELSE LET cat == byId(Head(lines).id)
       IN  IF cat = 0 THEN aggregate(Tail(lines), agg)
           ELSE aggregate(Tail(lines), mapAdd(agg, MENU_CATALOG[cat].name, Head(lines).qty))

\* mergedMenuItems.find(m => m.name === itemName): its index, 0 for undefined.
findByName(menu, itemName) ==
  IF \E i \in DOMAIN menu : menu[i].name = itemName
  THEN CHOOSE i \in DOMAIN menu : menu[i].name = itemName /\ \A j \in 1 .. i - 1 : menu[j].name # itemName
  ELSE 0

\* for (const [itemName, quantity] of agg.entries()): the items of the bill.
RECURSIVE billItems(_, _)
billItems(agg, menu) ==
  IF Len(agg) = 0 THEN <<>>
  ELSE LET m == findByName(menu, Head(agg).key)
       IN  IF m = 0 THEN billItems(Tail(agg), menu)
           ELSE <<orderLine(menu[m], Head(agg).quantity)>> \o billItems(Tail(agg), menu)

\* items.reduce((sum, it) => sum + it.totalPrice, 0)
RECURSIVE sumTotalPrice(_)
sumTotalPrice(its) ==
  IF Len(its) = 0 THEN 0 ELSE Head(its).totalPrice + sumTotalPrice(Tail(its))

\* const bill = { voiceInput, items, subtotal, tax, total }
makeBill(voiceInput, its) ==
  [voiceInput |-> voiceInput, items |-> its, subtotal |-> sumTotalPrice(its),
   tax |-> 0, total |-> sumTotalPrice(its) + 0]

\* A request as it comes in; parsed is the handler's let parsed, not set yet.
Received(body) ==
  [voiceInput |-> body, pc |-> "received", key |-> <<>>, responses |-> <<>>,
   bill |-> <<>>, llm |-> 0, parsed |-> NullParse]

\* !voiceInput || typeof voiceInput !== 'string' || !voiceInput.trim()
noVoiceInput(body) ==
  Falsy(body) \/ body.type # "string" \/ Len(trim(body.chars)) = 0

\* return res.status(s).json(...): the request is answered.
respond(r, s, bill, parsed) ==
  requests' = [requests EXCEPT ![r].pc = "sent",
                               ![r].responses = Append(@, s),
                               ![r].bill = bill,
                               ![r].parsed = parsed]

\* Lines 852-904: 422 without lines; else the bill is built, stored, sent.
finish(r, parsed) ==
  IF parsed.isNull \/ Len(parsed.lines) = 0
  THEN /\ respond(r, 422, <<>>, parsed)
       /\ UNCHANGED BILLS
  ELSE /\ respond(r, 201, <<makeBill(requests[r].voiceInput,
                                      billItems(aggregate(parsed.lines, <<>>), DEFAULT_MENU_ITEMS))>>,
                  parsed)
       /\ BILLS' = <<makeBill(requests[r].voiceInput,
                              billItems(aggregate(parsed.lines, <<>>), DEFAULT_MENU_ITEMS))>> \o BILLS

parser == <<variant, input, order, menuItems, pc, text, aliasIdx, patIdx, lastIndex,
            match, usedRanges, orderMap, emitIdx, items, lastQty, counted, prev>>

\* if (!voiceInput || ...) return res.status(400)
Reject(r) ==
  /\ requests[r].pc = "received"
  /\ noVoiceInput(requests[r].voiceInput)
  /\ respond(r, 400, <<>>, NullParse)
  /\ UNCHANGED <<parser, LLM_CACHE, BILLS, llmCalls, genAI, generic>>

\* let parsed = LLM_CACHE.get(key) is there: the handler runs to its response.
AnswerFromCache(r) ==
  /\ requests[r].pc = "received"
  /\ ~ noVoiceInput(requests[r].voiceInput)
  /\ cacheGet(LLM_CACHE, cacheKeyFromInput(requests[r].voiceInput)) > 0
  /\ finish(r, LLM_CACHE[cacheGet(LLM_CACHE, cacheKeyFromInput(requests[r].voiceInput))].parsed)
  /\ UNCHANGED <<parser, LLM_CACHE, llmCalls, genAI, generic>>

\* llmParseToIds without genAI returns null: no call, nothing cached, 422.
NoApiKey(r) ==
  /\ requests[r].pc = "received"
  /\ ~ noVoiceInput(requests[r].voiceInput)
  /\ cacheGet(LLM_CACHE, cacheKeyFromInput(requests[r].voiceInput)) = 0
  /\ ~ genAI
  /\ finish(r, NullParse)
  /\ UNCHANGED <<parser, LLM_CACHE, llmCalls, genAI, generic>>

\* if (!parsed) parsed = await llmParseToIds(voiceInput): the call goes out.
CallLlm(r) ==
  /\ requests[r].pc = "received"
  /\ ~ noVoiceInput(requests[r].voiceInput)
  /\ cacheGet(LLM_CACHE, cacheKeyFromInput(requests[r].voiceInput)) = 0
  /\ genAI
  /\ requests' = [requests EXCEPT ![r].pc = "awaiting",
                                  ![r].key = cacheKeyFromInput(requests[r].voiceInput),
                                  ![r].llm = @ + 1]
  /\ llmCalls' = Append(llmCalls, cacheKeyFromInput(requests[r].voiceInput))
  /\ UNCHANGED <<parser, LLM_CACHE, BILLS, genAI, generic>>

\* The answer is there: if (parsed) LLM_CACHE.set(key, parsed), then the
\* handler runs to its response.
storeAndFinish(r, parsed) ==
  /\ LLM_CACHE' = IF parsed.isNull THEN LLM_CACHE
                  ELSE cacheSet(LLM_CACHE, requests[r].key, parsed)
  /\ finish(r, parsed)

LlmAnswers(r) ==
  /\ requests[r].pc = "awaiting"
  /\ \E reply \in LlmReplies : storeAndFinish(r, llmParseToIds(reply))
  /\ UNCHANGED <<parser, llmCalls, genAI, generic>>

\* model.generateContent rejects: catch (error) sends 500.
LlmFails(r) ==
  /\ requests[r].pc = "awaiting"
  /\ respond(r, 500, <<>>, NullParse)
  /\ UNCHANGED <<parser, LLM_CACHE, BILLS, llmCalls, genAI, generic>>

\* The bodies the requests carry: no voiceInput, a blank one, an order, the
\* same order in other letters and with a comma, an order with a qualifier,
\* and words that are no order.
BillOrders ==
  { <<Mention(before(digits(2), WDosa), KeyPlainDosa, 2)>>,
    <<Mention(before(digits(2), <<68, 79, 83, 65, 44>>), KeyPlainDosa, 2)>>,
    <<Mention(WMasalaDosa, KeyMasalaDosa, 1)>>,
    <<Mention(WHello, <<>>, 0)>> }

BillBodies ==
  { Str(render(o)) : o \in BillOrders } \cup { JsUndefined, Str(<<32>>) }

\* The process takes MaxRequests requests; the first carries the words the
\* deterministic parser is run on, parseTamilOrderToItems(voiceInput,
\* DEFAULT_MENU_ITEMS), next to the handler.
InitBill ==
  /\ variant = "bill"
  /\ \/ \E o \in BillOrders : order = o /\ input = Str(render(o))
     \/ order = <<>> /\ input \in {JsUndefined, Str(<<32>>)}
  /\ menuItems = DEFAULT_MENU_ITEMS
  /\ prev = NoCall
  /\ Fresh
  /\ requests \in { [r \in RequestIds |-> Received(IF r = 1 THEN input ELSE b)] : b \in BillBodies }
  /\ LLM_CACHE = <<>>
  /\ BILLS = <<>>
  /\ llmCalls = <<>>
  /\ genAI \in BOOLEAN
  /\ generic = NoGeneric

\* Every alias these bodies mention is on the default menu, so no alias is
\* dropped.
NextBill ==
  \/ \E r \in RequestIds : Reject(r)
  \/ \E r \in RequestIds : AnswerFromCache(r)
  \/ \E r \in RequestIds : NoApiKey(r)
  \/ \E r \in RequestIds : CallLlm(r)
  \/ \E r \in RequestIds : LlmAnswers(r)
  \/ \E r \in RequestIds : LlmFails(r)
  \/ ReturnNoInput
  \/ ReturnNoText
  \/ BeginScan
  \/ Exec
  \/ Skip
  \/ Count
  \/ EmitLine
  \/ Return

SpecBill == InitBill /\ [][NextBill]_vars

----------------------------------------------------------------------------
(* One process, several calls of the parser one after the other.  The      *)
(* parser is synchronous, so a call runs from its start to its return      *)
(* before the next call starts; prev keeps the first call, the one that    *)
(* ran on a fresh process.                                                 *)

\* Calls one process makes.
MaxCalls == 3

CallOrders ==
  { <<Mention(before(digits(2), WDosa), KeyPlainDosa, 2)>>,
    <<Mention(WMasalaDosa, KeyMasalaDosa, 1), Mention(before(digits(2), WOmlette), KeyOmelette, 2)>> }

CallInputs == { Str(render(o)) : o \in CallOrders } \cup { JsNull, Str(<<32>>) }

InitCalls ==
  /\ variant \in {"bill", "sim"}
  /\ order = <<>>
  /\ input \in CallInputs
  /\ menuItems \in Catalogs
  /\ prev = NoCall
  /\ Fresh
  /\ ServerIdle

\* A parser whose usedRanges is a variable of the module: the spans of the
\* call before are still in it when the next call starts.
callAfterKeepingRanges(in, menu) ==
  /\ pc = "done"
  /\ prev.calls < MaxCalls - 1
  /\ prev' = IF prev = NoCall THEN thisCall ELSE [prev EXCEPT !.calls = @ + 1]
  /\ input' = in
  /\ menuItems' = menu
  /\ pc' = "start"
  /\ text' = <<>>
  /\ aliasIdx' = 1
  /\ patIdx' = 1
  /\ lastIndex' = 0
  /\ match' = NoMatch
  /\ orderMap' = <<>>
  /\ emitIdx' = 0
  /\ items' = <<>>
  /\ lastQty' = DefaultQuantity
  /\ counted' = 0
  /\ UNCHANGED <<variant, order, usedRanges, server>>

\* The next call of the process: const orderMap = new Map(), const
\* usedRanges = [] and a new RegExp per pattern, so every local starts anew.
callAfter(in, menu) ==
  /\ pc = "done"
  /\ prev.calls < MaxCalls - 1
  /\ prev' = IF prev = NoCall THEN thisCall ELSE [prev EXCEPT !.calls = @ + 1]
  /\ input' = in
  /\ menuItems' = menu
  /\ pc' = "start"
  /\ text' = <<>>
  /\ aliasIdx' = 1
  /\ patIdx' = 1
  /\ lastIndex' = 0
  /\ match' = NoMatch
  /\ usedRanges' = <<>>
  /\ orderMap' = <<>>
  /\ emitIdx' = 0
  /\ items' = <<>>
  /\ lastQty' = DefaultQuantity
  /\ counted' = 0
  /\ UNCHANGED <<variant, order, server>>

\* The caller calls the parser again, with any text and any catalog.
CallAny ==
  \E in \in CallInputs, menu \in Catalogs : callAfter(in, menu)

NextCalls ==
  \/ ReturnNoInput
  \/ ReturnNoText
  \/ BeginScan
  \/ Exec
  \/ Skip
  \/ Count
  \/ DropAlias
  \/ EmitLine
  \/ Return
  \/ CallAny

SpecCalls == InitCalls /\ [][NextCalls]_vars

----------------------------------------------------------------------------
(* generateGenericBill and parseGenericOrder of                            *)
(* controllers/genericBillController.js.  Amounts and quantities the LLM   *)
(* writes are JavaScript numbers; the model counts them in hundredths, so  *)
(* Amount(250) is 2.5 and Amount(200000) is 2000.                          *)

\* Longest list of items in an LLM answer.
MaxItems == 2

Amount(h) == [type |-> "number", chars |-> <<>>, num |-> h]
NaN == [type |-> "NaN", chars |-> <<>>, num |-> 0]

\* preprocessTamilText: '' for no string, else the normalization of
\* preprocessText.
preprocessTamilText(v) ==
  IF Falsy(v) \/ v.type # "string" THEN <<>> ELSE preprocessText(v)

\* parseInt(v) of a number (its digits before the point) or of undefined
\* and null (NaN), as a whole number.
parseIntOf(v) ==
  IF v.type # "number" THEN NaN
  ELSE IF v.num >= 0 THEN Amount(100 * (v.num \div 100))
  ELSE Amount(-100 * ((-v.num) \div 100))

\* Math.max(1, parseInt(item.quantity) || 1), as a whole number.
quantityOf(v) ==
  IF parseIntOf(v).type = "NaN" \/ parseIntOf(v).num = 0 THEN 1
  ELSE Max(1, parseIntOf(v).num \div 100)

\* item.totalPrice !== undefined ? parseFloat(item.totalPrice) : null
totalPriceOf(v) ==
  IF v.type = "undefined" THEN JsNull
  ELSE IF v.type = "number" THEN v
  ELSE NaN

\* Math.round(x * 100) / 100 for x = h / (100 * q): halves go up.
roundedQuotient(h, q) == (2 * h + q) \div (2 * q)

\* unitPrice = totalPrice !== null ? totalPrice / quantity : null, then
\* unitPrice ? Math.round(unitPrice * 100) / 100 : null
unitPriceOf(totalPrice, quantity) ==
  IF totalPrice.type # "number" \/ totalPrice.num = 0 THEN JsNull
  ELSE Amount(roundedQuotient(totalPrice.num, quantity))

\* String(item.name || '').trim()
nameOf(v) == IF v.type = "string" THEN trim(v.chars) ELSE <<>>

\* parsed.items.map(item => ...).filter(item => item.name.length > 0)
RECURSIVE processItems(_)
processItems(raw) ==
  IF Len(raw) = 0 THEN <<>>
  ELSE IF Len(nameOf(Head(raw).name)) = 0 THEN processItems(Tail(raw))
  ELSE << [name |-> nameOf(Head(raw).name),
           quantity |-> quantityOf(Head(raw).quantity),
           unitPrice |-> unitPriceOf(totalPriceOf(Head(raw).totalPrice),
                                     quantityOf(Head(raw).quantity)),
           totalPrice |-> totalPriceOf(Head(raw).totalPrice)] >>
         \o processItems(Tail(raw))

\* item.totalPrice || 0, in hundredths.
priceOrZero(v) == IF v.type = "number" THEN v.num ELSE 0

\* processedItems.reduce((sum, item) => sum + (item.totalPrice || 0), 0)
RECURSIVE billTotalOf(_)
billTotalOf(its) ==
  IF Len(its) = 0 THEN 0
  ELSE priceOrZero(Head(its).totalPrice) + billTotalOf(Tail(its))

\* JSON.stringify of a price: NaN is written as null.
toJSON(v) == IF v.type = "NaN" THEN JsNull ELSE v

\* res.json(bill): the items as the client reads them.
sentItems(its) ==
  [i \in DOMAIN its |-> [its[i] EXCEPT !.unitPrice = toJSON(@), !.totalPrice = toJSON(@)]]

\* The null of parseGenericOrder.
NoOrder == [isNull |-> TRUE, items |-> <<>>, billTotal |-> 0]

\* A parser that takes the billTotal the LLM wrote.
parseGenericOrderTrusting(reply) ==
  IF ~ reply.json THEN NoOrder
  ELSE [isNull |-> FALSE, items |-> processItems(reply.items),
        billTotal |-> reply.billTotal]

\* parseGenericOrder after its await: null when the text is no JSON with an
\* items array, else { items, billTotal }.
parseGenericOrder(reply) ==
  IF ~ reply.json THEN NoOrder
  ELSE [isNull |-> FALSE, items |-> processItems(reply.items),
        billTotal |-> billTotalOf(processItems(reply.items))]

\* What the LLM may write as an item: a name with spaces around it or no
\* name; a whole, fractional, zero, negative or missing quantity; a total
\* that is missing, null, zero, or 2000 (divisible by the quantities 1 and
\* 2, not by 3).
RawNames == { Str(<<32, 83, 104, 105, 114, 116, 32>>), JsUndefined }
RawQuantities == { Amount(300), Amount(250), Amount(0), Amount(-100), JsUndefined }
RawTotals == { JsUndefined, JsNull, Amount(0), Amount(200000) }
RawItems ==
  { [name |-> n, quantity |-> q, totalPrice |-> t] :
      n \in RawNames, q \in RawQuantities, t \in RawTotals }

\* The billTotal the LLM may report, in hundredths.
ReportedTotals == { 0, 120000 }

\* What the awaited model.generateContent gives.
GenericReplies ==
  { [json |-> FALSE, items |-> <<>>, billTotal |-> 0] }
  \cup { [json |-> TRUE, items |-> its, billTotal |-> b] :
           its \in SeqsUpTo(RawItems, MaxItems), b \in ReportedTotals }

\* The bodies of the requests: no voiceInput, a number, a blank, a comma,
\* and two orders.
GenericBodies ==
  { JsUndefined, Num(5), Str(<<32>>), Str(<<44>>), Str(WShopOrder),
    Str(before(digits(2), WDosa)) }

\* res.status(s).json(...) with no bill.
genericRespond(s) ==
  generic' = [generic EXCEPT !.pc = "sent", !.responses = Append(@, s)]

\* Lines 322-343: 422 without items, else the bill is sent with 200.
genericFinish(replied, parsed) ==
  generic' = [generic EXCEPT
    !.pc = "sent",
    !.reply = replied,
    !.responses = Append(@, IF parsed.isNull \/ Len(parsed.items) = 0 THEN 422 ELSE 200),
    !.bill = IF parsed.isNull \/ Len(parsed.items) = 0 THEN <<>>
             ELSE <<[voiceInput |-> generic.voiceInput,
                     items |-> sentItems(parsed.items),
                     billTotal |-> parsed.billTotal]>>]

\* A handler without its first test: every body goes to the parser.
GenericRejectUnguarded ==
  /\ generic.pc = "received"
  /\ noVoiceInput(generic.voiceInput)
  /\ generic' = [generic EXCEPT !.pc = "awaiting", !.llm = @ + 1]
  /\ UNCHANGED <<parser, requests, LLM_CACHE, BILLS, llmCalls, genAI>>

\* if (!voiceInput || typeof voiceInput !== 'string' || !voiceInput.trim())
GenericReject ==
  /\ generic.pc = "received"
  /\ noVoiceInput(generic.voiceInput)
  /\ genericRespond(400)
  /\ UNCHANGED <<parser, requests, LLM_CACHE, BILLS, llmCalls, genAI>>

\* parseGenericOrder returns null before it calls the LLM: no API key, or
\* nothing left of the text after preprocessTamilText.
GenericNoParse ==
  /\ generic.pc = "received"
  /\ ~ noVoiceInput(generic.voiceInput)
  /\ ~ genAI \/ Len(preprocessTamilText(generic.voiceInput)) = 0
  /\ genericFinish(<<>>, NoOrder)
  /\ UNCHANGED <<parser, requests, LLM_CACHE, BILLS, llmCalls, genAI>>

\* await model.generateContent(...): the call goes out.
GenericCallLlm ==
  /\ generic.pc = "received"
  /\ ~ noVoiceInput(generic.voiceInput)
  /\ genAI /\ Len(preprocessTamilText(generic.voiceInput)) > 0
  /\ generic' = [generic EXCEPT !.pc = "awaiting", !.llm = @ + 1]
  /\ UNCHANGED <<parser, requests, LLM_CACHE, BILLS, llmCalls, genAI>>

\* genAI.getGenerativeModel throws, outside the try of parseGenericOrder:
\* the catch of the handler sends 500.
GenericThrows ==
  /\ generic.pc = "received"
  /\ ~ noVoiceInput(generic.voiceInput)
  /\ genAI /\ Len(preprocessTamilText(generic.voiceInput)) > 0
  /\ genericRespond(500)
  /\ UNCHANGED <<parser, requests, LLM_CACHE, BILLS, llmCalls, genAI>>

\* The answer is there; the handler runs to its response.
GenericLlmAnswers ==
  /\ generic.pc = "awaiting"
  /\ \E reply \in GenericReplies : genericFinish(<<reply>>, parseGenericOrder(reply))
  /\ UNCHANGED <<parser, requests, LLM_CACHE, BILLS, llmCalls, genAI>>

\* model.generateContent rejects: the catch of parseGenericOrder returns
\* null and the handler sends 422.
GenericLlmFails ==
  /\ generic.pc = "awaiting"
  /\ genericFinish(<<>>, NoOrder)
  /\ UNCHANGED <<parser, requests, LLM_CACHE, BILLS, llmCalls, genAI>>

InitGeneric ==
  /\ variant = "bill"
  /\ order = <<>>
  /\ input = JsNull
  /\ menuItems = <<>>
  /\ prev = NoCall
  /\ Fresh
  /\ requests = <<>>
  /\ LLM_CACHE = <<>>
  /\ BILLS = <<>>
  /\ llmCalls = <<>>
  /\ genAI \in BOOLEAN
  /\ \E body \in GenericBodies : generic = [NoGeneric EXCEPT !.voiceInput = body, !.pc = "received"]

NextGeneric ==
  \/ GenericReject
  \/ GenericNoParse
  \/ GenericCallLlm
  \/ GenericThrows
  \/ GenericLlmAnswers
  \/ GenericLlmFails

SpecGeneric == InitGeneric /\ [][NextGeneric]_vars

----------------------------------------------------------------------------
(* The normalizers on their own: preprocessText and preprocessTamilText     *)
(* applied to any JavaScript value.                                         *)

\* Longest string handed to a normalizer, in UTF-16 code units.
MaxText == 3

\* A letter, white space, punctuation, zero-width characters (U+FEFF is
\* white space as well) and a pair of Tamil signs that NFC composes.
NormalizerAlphabet == {97, 32, 9, 44, 45, 8203, 65279, 3014, 3006}

NormalizerInputs ==
  { Str(s) : s \in SeqsUpTo(NormalizerAlphabet, MaxText) }
  \cup { JsNull, JsUndefined, JsObject, Num(0), Num(5) }

InitNormalize ==
  /\ variant \in {"bill", "sim"}
  /\ input \in NormalizerInputs
  /\ order = <<>>
  /\ menuItems = <<>>
  /\ prev = NoCall
  /\ Fresh
  /\ ServerIdle

\* preprocessText(input), called with the value as it is.
Normalize ==
  /\ pc = "start"
  /\ text' = preprocessText(input)
  /\ pc' = "normalized"
  /\ UNCHANGED <<variant, input, order, menuItems, aliasIdx, patIdx, lastIndex,
                 match, usedRanges, orderMap, emitIdx, items, lastQty, counted, prev, server>>

\* preprocessTamilText(input), called with the value as it is.
NormalizeTamil ==
  /\ pc = "start"
  /\ text' = preprocessTamilText(input)
  /\ pc' = "normalizedTamil"
  /\ UNCHANGED <<variant, input, order, menuItems, aliasIdx, patIdx, lastIndex,
                 match, usedRanges, orderMap, emitIdx, items, lastQty, counted, prev, server>>

NextNormalize ==
  \/ Normalize
  \/ NormalizeTamil

SpecNormalize == InitNormalize /\ [][NextNormalize]_vars

----------------------------------------------------------------------------
(* Properties of the deterministic parser.                                 *)

\* The positions of the lines of its that carry the name.
linesNamed(its, name) == { i \in DOMAIN its : its[i].itemName = name }

\* The customer said the alias.
Mentioned(alias) == \E i \in DOMAIN order : order[i].alias = alias

\* C1. Specificity precedence: when the text contains "egg kothu parotta",
\* with or without a quantity in front, the finished parse has the Egg
\* Kothu Parotta line and no line of its generic siblings, Veg Kothu
\* Parotta and Parotta. The customer names neither sibling in any order of
\* the model, so a sibling's line can only come from the egg phrase.
C1_SpecificityPrecedence ==
  (pc = "done" /\ Mentioned(KeyEggKothuParotta)) =>
    /\ linesNamed(items, ItemEggKothuParotta.name) # {}
    /\ linesNamed(items, ItemVegKothuParotta.name) = {}
    /\ linesNamed(items, ItemParotta.name) = {}

\* Two consumed spans share no offset, and each lies in the text.
C2_SpansDisjoint ==
  /\ \A i \in DOMAIN usedRanges :
       0 <= usedRanges[i].start /\ usedRanges[i].start < usedRanges[i].end
         /\ usedRanges[i].end <= Len(text)
  /\ \A i, j \in DOMAIN usedRanges :
       i < j => \/ usedRanges[i].end <= usedRanges[j].start
                \/ usedRanges[j].end <= usedRanges[i].start

\* Within a call the consumed spans only grow, and the span that
\* detectQuantityNear returns for a counted match overlaps none consumed
\* before it.
C2_SpansKept ==
  \/ pc' = "start"
  \/ /\ Len(usedRanges') >= Len(usedRanges)
     /\ SubSeq(usedRanges', 1, Len(usedRanges)) = usedRanges
     /\ (orderMap' # orderMap /\ lastQty'.start >= 0) =>
          \A i \in DOMAIN usedRanges :
            \/ lastQty'.end <= usedRanges[i].start
            \/ usedRanges[i].end <= lastQty'.start

\* C2. No double-counted quantity: in every state of a parse call the
\* consumed quantity spans are pairwise disjoint; a span once consumed is
\* never removed, and detectQuantityNear never returns it again for a later
\* match of the same call.
C2_NoDoubleCountedQuantity == [] C2_SpansDisjoint /\ [][C2_SpansKept]_vars

\* "2 omlette" is matched by two patterns of Omelette: the first match takes
\* the span of the 2, the second finds it consumed and counts 1.
C2_SpanTakenOnce ==
  /\ pc = "done"
  /\ order = <<Mention(before(digits(2), WOmlette), KeyOmelette, 2)>>
  /\ usedRanges = <<[start |-> 0, end |-> 2]>>
  /\ orderMap = <<[key |-> KeyOmelette, quantity |-> 3]>>

\* C3. Repeat accumulation: when the text mentions one alias twice, with
\* quantities q1 and q2, and the catalog has the entry of that name, the
\* finished parse has exactly one line of that name and its quantity is
\* q1 + q2.
C3_RepeatAccumulation ==
  ( /\ pc = "done"
    /\ Len(order) = 2
    /\ order[1].alias = order[2].alias
    /\ order[1].alias # <<>>
    /\ exactIndex(order[1].alias, menuItems) > 0 ) =>
    LET lines == linesNamed(items, menuItems[exactIndex(order[1].alias, menuItems)].name)
    IN  /\ Cardinality(lines) = 1
        /\ \A i \in lines : items[i].quantity = order[1].qty + order[2].qty

\* C4. Quantity-word and digit equivalence: for every word w of the lexicon
\* with value n and every item word of the model, the parse of "w item"
\* and the parse of "n item", n in digits, both put quantity n on the
\* item's line.
C4_WordDigitEquivalence ==
  ( /\ pc = "done"
    /\ Len(order) = 1
    /\ order[1] \in LexiconMentions
    /\ exactIndex(order[1].alias, menuItems) > 0 ) =>
    \E i \in DOMAIN items :
      /\ items[i].itemName = menuItems[exactIndex(order[1].alias, menuItems)].name
      /\ items[i].quantity = order[1].qty

\* C5. Quantity after the item: when nothing precedes the item and a number
\* (digits) or a number-word follows it, the parse puts that quantity on
\* the item's line and consumes the number's span.
C5_QuantityAfterItem ==
  (pc = "done" /\ Len(order) = 1 /\ order[1] \in TrailingMentions) =>
    /\ \E i \in DOMAIN items :
         /\ items[i].itemName = ItemPlainDosa.name
         /\ items[i].quantity = order[1].qty
    /\ Len(usedRanges) = 1

\* The entry satisfies the resolver of the alias: the name match of
\* utils/similarity.js or the predicate of the alias's case.
Satisfies(v, aliasKey, item) ==
  IF v = "bill" THEN predicateBill(aliasKey, item)
  ELSE toLowerCase(item.name) = toLowerCase(aliasKey) \/ predicateSim(aliasKey, item)

\* The accumulated aliases that some entry of the catalog satisfies.
Resolvable(v, map, menu) ==
  SelectSeq(map, LAMBDA e : \E i \in DOMAIN menu : Satisfies(v, e.key, menu[i]))

\* C6. An alias that matched but that no catalog entry satisfies is left out
\* of the output, and the call still returns the lines of the aliases that
\* do resolve, in order and with their accumulated quantities; the
\* quantities do not depend on the catalog, so the same words parsed
\* against a catalog with more entries give these lines the same quantities.
C6_UnresolvableAliasDropped ==
  pc = "done" =>
    /\ Len(items) = Len(Resolvable(variant, orderMap, menuItems))
    /\ \A i \in DOMAIN items :
         items[i].quantity = Resolvable(variant, orderMap, menuItems)[i].quantity
    /\ (prev.valid /\ prev.input = input /\ prev.menuItems # menuItems) =>
         /\ orderMap = prev.orderMap
         /\ LET small == IF menuItems = CatalogPartial THEN items ELSE prev.items
                large == IF menuItems = CatalogPartial THEN prev.items ELSE items
            IN  \A i \in DOMAIN small : \E j \in DOMAIN large :
                  /\ large[j].itemName = small[i].itemName
                  /\ large[j].quantity = small[i].quantity

\* A partial bill: some alias was dropped and another one's line is there.
C6_PartialBill ==
  /\ pc = "done"
  /\ menuItems = CatalogPartial
  /\ Len(items) >= 1
  /\ Len(Resolvable(variant, orderMap, menuItems)) < Len(orderMap)

\* The customer named no item.
NothingOrdered == \A i \in DOMAIN order : order[i].alias = <<>>

\* C7. Empty input: for the empty string, null, undefined, any value that is
\* no string, and a text that names no item, the call counts nothing,
\* returns the empty list and throws nothing (no TypeError is ever left in
\* place of the text).
C7_EmptyInput ==
  /\ text # TypeErrorThrown
  /\ NothingOrdered => orderMap = <<>> /\ items = <<>>

\* A call with a number returned (the empty list).
C7_NonStringReturned == pc = "done" /\ input = Num(5) /\ items = <<>>

\* The text is in normalized form: NFC, no zero-width or punctuation
\* character, no whitespace but single inner spaces.
Normalized(s) ==
  /\ \A i \in DOMAIN s :
       /\ s[i] \notin ZeroWidth \cup Punctuation
       /\ s[i] \in WhiteSpace => s[i] = 32
  /\ \A i \in 1 .. Len(s) - 1 :
       /\ ~ (s[i] = 32 /\ s[i + 1] = 32)
       /\ Composite(s[i], s[i + 1]) < 0
  /\ s # <<>> => s[1] # 32 /\ s[Len(s)] # 32

\* This call parses normalize(t) after a call that parsed t, t normalized.
AfterNormalized ==
  /\ prev.valid
  /\ prev.menuItems = menuItems
  /\ prev.input.type = "string"
  /\ Normalized(prev.input.chars)

\* C8. Idempotence under normalization: for a text t in normalized form,
\* the parser matched on t itself, and parsing normalize(t) matches on the
\* same text and returns the same lines as parsing t.
C8_IdempotentUnderNormalization ==
  (pc = "done" /\ AfterNormalized) =>
    /\ prev.text = prev.input.chars
    /\ input = prev.input
    /\ text = prev.text
    /\ items = prev.items

\* Both calls returned lines for a normalized text with Tamil letters.
C8_SameLinesTwice ==
  /\ pc = "done"
  /\ AfterNormalized
  /\ items # <<>>
  /\ \E i \in DOMAIN text : text[i] > 127

\* The accumulated aliases, of those already emitted, that resolve.
Emitted ==
  SelectSeq(SubSeq(orderMap, 1, emitIdx),
            LAMBDA e : resolve(variant, e.key, menuItems) > 0)

\* C9. Order aggregation: the accumulated alias keys are pairwise different
\* and each gives at most one line; a line carries the name and the price
\* of the entry its alias resolves to, the alias's accumulated quantity,
\* and totalPrice = unitPrice x quantity.
C9_OrderAggregation ==
  /\ \A i, j \in DOMAIN orderMap : i # j => orderMap[i].key # orderMap[j].key
  /\ Len(items) = Len(Emitted)
  /\ \A i \in DOMAIN items :
       LET entry == menuItems[resolve(variant, Emitted[i].key, menuItems)]
       IN  /\ items[i].itemName = entry.name
           /\ items[i].unitPrice = entry.price
           /\ items[i].quantity = Emitted[i].quantity
           /\ items[i].totalPrice = items[i].unitPrice * items[i].quantity

\* Two mentions of one alias became one line of five.
C9_OneLineOfFive ==
  /\ pc = "done"
  /\ Len(order) = 2
  /\ Len(items) = 1
  /\ items[1].quantity = 5
  /\ items[1].totalPrice = 5 * items[1].unitPrice

\* The entry the stated order of resolution gives: the one named as the
\* alias, whatever the case of the letters, if there is one; or else the
\* first in catalog order that satisfies the alias's predicate; 0 for none.
ResolutionOrder(v, aliasKey, menu) ==
  IF exactIndex(aliasKey, menu) > 0 THEN exactIndex(aliasKey, menu)
  ELSE IF v = "bill" THEN byBill(aliasKey, menu)
  ELSE bySim(aliasKey, menu)

\* C10. Menu resolution order: for every accumulated alias, resolve returns
\* the entry named as the alias whenever the catalog has one, in whatever
\* order the catalog is, and falls back to the predicate only when it has
\* none; the returned lines carry the names of these entries.
C10_MenuResolutionOrder ==
  /\ \A i \in DOMAIN orderMap :
       resolve(variant, orderMap[i].key, menuItems)
         = ResolutionOrder(variant, orderMap[i].key, menuItems)
  /\ pc = "done" =>
       \A i \in DOMAIN orderMap :
         LET r == ResolutionOrder(variant, orderMap[i].key, menuItems)
         IN  r > 0 => linesNamed(items, menuItems[r].name) # {}

----------------------------------------------------------------------------
\* C11: free path first. A request whose words the deterministic parser
\* turns into one or more lines makes no LLM call: once the parser has
\* returned lines for the words of a request, that request has not called
\* the LLM.
C11_FreePathFirst ==
  \A r \in DOMAIN requests :
    (requests[r].voiceInput = input /\ pc = "done" /\ Len(items) > 0)
      => requests[r].llm = 0

----------------------------------------------------------------------------
\* C12: statelessness and determinism. A call that gets the text and the
\* catalog of the first call of the process (the call that ran alone on a
\* fresh process) returns what that call returned, whatever calls ran in
\* between, and no step of a call changes its text or its catalog. The
\* lexicon and the two tables are constants of the module.
C12_SameCall ==
  (pc = "done" /\ prev.valid /\ prev.input = input /\ prev.menuItems = menuItems)
    => /\ items = prev.items
       /\ text = prev.text
       /\ orderMap = prev.orderMap
       /\ usedRanges = prev.usedRanges

C12_InputsKept == pc # "done" => input' = input /\ menuItems' = menuItems

C12_StatelessAndDeterministic == [] C12_SameCall /\ [][C12_InputsKept]_vars

\* The order of the first call was parsed again as the last call of the
\* process, against the same catalog, and gave lines.
C12_SameOrderAgain ==
  /\ pc = "done"
  /\ prev.valid
  /\ prev.calls = MaxCalls - 1
  /\ prev.input = input
  /\ prev.menuItems = menuItems
  /\ Len(usedRanges) > 0
  /\ Len(items) > 0

----------------------------------------------------------------------------
\* The sum of the quantities accumulated in the map.
RECURSIVE totalQuantity(_)
totalQuantity(map) ==
  IF Len(map) = 0 THEN 0 ELSE Head(map).quantity + totalQuantity(Tail(map))

\* Every quantity found, accumulated or emitted is an integer >= 1, and a
\* quantity that comes with no span is 1.
C13_QuantitiesPositive ==
  /\ lastQty.quantity \in Nat /\ lastQty.quantity >= 1
  /\ lastQty.start < 0 => lastQty.quantity = 1
  /\ \A i \in DOMAIN orderMap : orderMap[i].quantity \in Nat /\ orderMap[i].quantity >= 1
  /\ \A i \in DOMAIN items : items[i].quantity \in Nat /\ items[i].quantity >= 1

\* A counted match that consumes no span adds exactly 1.
C13_DefaultAddsOne ==
  (pc = "body" /\ orderMap' # orderMap /\ usedRanges' = usedRanges)
    => totalQuantity(orderMap') = totalQuantity(orderMap) + 1

\* C13: every order line has an integer quantity >= 1, for every input,
\* also when a zero is written before or after the item, and a match with
\* no usable quantity contributes exactly 1.
C13_QuantityAtLeastOne == [] C13_QuantitiesPositive /\ [][C13_DefaultAddsOne]_vars

\* "0 dosa" was parsed: the zero is not used and the line has quantity 1.
C13_ZeroBeforeItem ==
  /\ pc = "done"
  /\ order = <<Mention(before(digits(0), WDosa), KeyPlainDosa, 0)>>
  /\ usedRanges = <<>>
  /\ Len(items) = 1
  /\ items[1].quantity = 1

----------------------------------------------------------------------------
\* A match with a qualifier in the window before it changes neither the
\* accumulated quantities nor the consumed spans nor the lines.
C14_DiscardedEntirely ==
  (pc = "body" /\ shouldSkip(variant, aliasKeyAt(variant, aliasIdx), text, match.index))
    => /\ orderMap' = orderMap
       /\ usedRanges' = usedRanges
       /\ items' = items

\* One item said with its qualifier gives no line of the generic alias.
C14_NoGenericLine ==
  (pc = "done" /\ Len(order) = 1) =>
    /\ order[1].alias = KeyMasalaDosa => linesNamed(items, ItemPlainDosa.name) = {}
    /\ order[1].chars \in {WKothuParotta, before(digits(2), WKothuParotta)}
         => linesNamed(items, ItemParotta.name) = {}

\* C14: qualifier exclusion. For an alias with an exclusion rule (Plain
\* Dosa, Parotta), a match whose window before it contains an exclusion
\* pattern is discarded entirely: nothing is added to the alias's quantity
\* and no span is consumed; so "masala dosa" gives no Plain Dosa line and
\* "kothu parotta" gives no Parotta line.
C14_QualifierExclusion == [] C14_NoGenericLine /\ [][C14_DiscardedEntirely]_vars

\* "2 kothu parotta" was parsed: the Parotta pattern matched after "kothu"
\* and was discarded, the span of the 2 was consumed once and there is no
\* Parotta line.
C14_KothuParottaParsed ==
  /\ pc = "done"
  /\ order = <<Mention(before(digits(2), WKothuParotta), KeyVegKothuParotta, 2)>>
  /\ menuItems = CatalogFull
  /\ Len(usedRanges) = 1
  /\ linesNamed(items, ItemVegKothuParotta.name) # {}
  /\ linesNamed(items, ItemParotta.name) = {}

----------------------------------------------------------------------------
----------------------------------------------------------------------------
(* Properties of the generic bill handler.                                 *)

\* The bill of the response, when there is one.
GenericBillSent == generic.pc = "sent" /\ generic.bill # <<>>

\* C16: generateGenericBill sends exactly one response per request: 400
\* when voiceInput is missing, no string or blank, and then the LLM is
\* never called; 422 when parsing gives null or no item; 200 with the bill
\* otherwise; 500 when an error is thrown. A request still in the handler
\* has no response yet.
C16_OneResponsePerRequest ==
  /\ generic.pc \in {"none", "received", "awaiting"} => generic.responses = <<>>
  /\ generic.pc = "sent" =>
       /\ Len(generic.responses) = 1
       /\ generic.responses[1] \in {200, 400, 422, 500}
       /\ noVoiceInput(generic.voiceInput) <=> generic.responses[1] = 400
       /\ generic.responses[1] = 400 => generic.llm = 0 /\ generic.reply = <<>>
       /\ generic.responses[1] = 200 <=> generic.bill # <<>>
       /\ generic.responses[1] = 200 <=>
            /\ generic.reply # <<>>
            /\ ~ parseGenericOrder(generic.reply[1]).isNull
            /\ Len(parseGenericOrder(generic.reply[1]).items) > 0
       /\ generic.responses[1] = 500 => generic.llm = 0 /\ generic.reply = <<>>
       /\ generic.bill # <<>> => Len(generic.bill[1].items) > 0

\* A blank voiceInput was answered 400.
C16_BlankRejected ==
  /\ generic.pc = "sent"
  /\ generic.voiceInput = Str(<<32>>)
  /\ generic.responses = <<400>>
  /\ generic.llm = 0

\* The sum of the totalPrice values the client reads in the items, a null
\* counting 0, in hundredths.
RECURSIVE sumOfSentTotals(_)
sumOfSentTotals(its) ==
  IF Len(its) = 0 THEN 0
  ELSE (IF Head(its).totalPrice.type = "number" THEN Head(its).totalPrice.num ELSE 0)
         + sumOfSentTotals(Tail(its))

\* C17: in every generic bill, billTotal is the sum of the totalPrice
\* values of exactly the items returned in the bill, an item with no price
\* adding 0, whatever billTotal the LLM reported.
C17_BillTotalIsSumOfItems ==
  GenericBillSent => generic.bill[1].billTotal = sumOfSentTotals(generic.bill[1].items)

\* A bill went out with a total the LLM did not report: of the two items
\* the LLM wrote, the one without a name was left out and the other one's
\* 2000 is the total.
C17_TotalRecomputed ==
  /\ GenericBillSent
  /\ Len(generic.reply[1].items) = 2
  /\ Len(generic.bill[1].items) = 1
  /\ generic.bill[1].billTotal = 200000
  /\ generic.reply[1].billTotal # generic.bill[1].billTotal

\* C18: every item of a generic bill has totalPrice = quantity x unitPrice
\* when unitPrice is not null, and totalPrice null when unitPrice is null,
\* for every quantity >= 1 and every total, also a total the quantity does
\* not divide and a total of 0.
C18_TotalIsQuantityTimesUnit ==
  GenericBillSent =>
    \A i \in DOMAIN generic.bill[1].items :
      LET it == generic.bill[1].items[i]
      IN  /\ it.unitPrice # JsNull =>
               it.totalPrice.type = "number"
                 /\ it.totalPrice.num = it.quantity * it.unitPrice.num
          /\ it.unitPrice = JsNull => it.totalPrice = JsNull

----------------------------------------------------------------------------
\* The digits that stand right after the end of the match m, within
\* MAX_AFTER characters: their value and their span, or DefaultQuantity.
digitsAfterItem(txt, m) ==
  LET afterText == slice(txt, m.end, Min(Len(txt), m.end + MAX_AFTER))
      spaces == RunLen(WhiteSpace, afterText, 0, -1)
      run == RunLen(Digit, afterText, spaces, -1)
  IN  IF run = 0 THEN DefaultQuantity
      ELSE [quantity |-> parseInt(slice(afterText, spaces, spaces + run)),
            start |-> m.end + spaces, end |-> m.end + spaces + run]

\* The digits that stand right before the start of the match m, within
\* MAX_BEFORE characters: their value and their span, or DefaultQuantity.
digitsBeforeItem(txt, m) ==
  LET beforeText == slice(txt, Max(0, m.index - MAX_BEFORE), m.index)
      hit == Search(ReBeforeNum, beforeText, 0)
  IN  IF hit.index < 0 THEN DefaultQuantity
      ELSE [quantity |-> parseInt(slice(beforeText, hit.index,
                                        hit.index + RunLen(Digit, beforeText, hit.index, -1))),
            start |-> m.index - (hit.end - hit.index), end |-> m.index]

\* What a counted match gets: a usable number in digits before the item
\* wins; with no text before the item, a usable number in digits after it
\* is taken; and when nothing is found the quantity is 1 with span (-1,-1),
\* no span is consumed and the alias's total grows by 1.
C19_TiersInOrder ==
  (pc = "body" /\ orderMap' # orderMap) =>
    /\ LET b == digitsBeforeItem(text, match)
       IN  (b.start >= 0 /\ b.quantity > 0 /\ isUnused(usedRanges, b.start, b.end))
             => lastQty' = b
    /\ LET a == digitsAfterItem(text, match)
       IN  (match.index = 0 /\ a.start >= 0 /\ a.quantity > 0
              /\ isUnused(usedRanges, a.start, a.end))
             => lastQty' = a
    /\ lastQty'.start < 0 =>
         /\ lastQty' = DefaultQuantity
         /\ usedRanges' = usedRanges
         /\ totalQuantity(orderMap') = totalQuantity(orderMap) + 1

\* C19: quantity search priority and default. detectQuantityNear looks
\* before the item for digits, then for a number-word, then after the item
\* for digits, then for a number-word, and returns the first candidate
\* whose span is not consumed, so a usable quantity before the item wins
\* over one after it; when no tier has a usable candidate it returns
\* quantity 1 with span (-1,-1), nothing is consumed and the match counts 1.
C19_QuantityPriorityAndDefault == [][C19_TiersInOrder]_vars

----------------------------------------------------------------------------
\* The place of the alias in the table of the variant, 0 if it has none.
position(v, aliasKey) ==
  IF \E i \in DOMAIN getSynonymPatterns(v) : getSynonymPatterns(v)[i].key = aliasKey
  THEN CHOOSE i \in DOMAIN getSynonymPatterns(v) : getSynonymPatterns(v)[i].key = aliasKey
  ELSE 0

\* Both aliases are in the table and the first is scanned before the second.
scannedBefore(v, specific, base) ==
  /\ position(v, specific) > 0
  /\ position(v, specific) < position(v, base)

C20_KothuOrdered ==
  /\ scannedBefore(variant, KeyEggKothuParotta, KeyVegKothuParotta)
  /\ scannedBefore(variant, KeyChickenKothuParotta, KeyVegKothuParotta)

C20_DosaOrdered ==
  /\ scannedBefore(variant, KeySetDosa1Pcs, KeyPlainDosa)
  /\ scannedBefore(variant, KeyGheeDosa, KeyPlainDosa)
  /\ scannedBefore(variant, KeyMasalaDosa, KeyPlainDosa)
  /\ scannedBefore(variant, KeyEggDosa, KeyPlainDosa)

\* C20: table ordering. In the alias pattern table of the parser that runs,
\* every alias with a qualifier is scanned before its generic base alias:
\* Egg Kothu Parotta and Chicken Kothu Parotta before Veg Kothu Parotta,
\* and Set, Ghee, Masala and Egg Dosa before Plain Dosa.
C20_TableOrdering == C20_KothuOrdered /\ C20_DosaOrdered

----------------------------------------------------------------------------
(* The number-word lexicon.                                                *)

\* What tier 2 returns for word i of the lexicon at the anchor idx: the
\* word's value and the span of its match, or DefaultQuantity when the
\* word does not stand right before the anchor.
wordHitBefore(i, txt, idx) ==
  LET m == Search(tamilNumberRegexes[i].before, slice(txt, Max(0, idx - MAX_BEFORE), idx), 0)
  IN  IF m.index < 0 THEN DefaultQuantity
      ELSE [quantity |-> tamilNumberWords[i].value,
            start |-> idx - (m.end - m.index), end |-> idx]

\* What tier 4 returns for word i at the anchor idx.
wordHitAfter(i, txt, idx) ==
  LET m == Search(tamilNumberRegexes[i].after, slice(txt, idx, Min(Len(txt), idx + MAX_AFTER)), 0)
  IN  IF m.index < 0 THEN DefaultQuantity
      ELSE [quantity |-> tamilNumberWords[i].value, start |-> idx, end |-> idx + m.end]

\* The words of the lexicon that match before (after) the anchor with a
\* span that is not consumed.
wordsBefore(txt, idx, used) ==
  { i \in DOMAIN tamilNumberWords :
      /\ wordHitBefore(i, txt, idx).start >= 0
      /\ isUnused(used, wordHitBefore(i, txt, idx).start, idx) }
wordsAfter(txt, idx, used) ==
  { i \in DOMAIN tamilNumberWords :
      /\ wordHitAfter(i, txt, idx).start >= 0
      /\ isUnused(used, idx, wordHitAfter(i, txt, idx).end) }

\* The words are in non-increasing order of length.
C21_SortedByLength ==
  \A i, j \in DOMAIN tamilNumberWords :
    i < j => Len(tamilNumberWords[i].word) >= Len(tamilNumberWords[j].word)

\* q is the value and span of a longest word among the candidates.
longestOf(cands, q, hits) ==
  \E i \in cands :
    /\ q = hits[i]
    /\ \A j \in cands : Len(tamilNumberWords[j].word) <= Len(tamilNumberWords[i].word)

\* A counted match with no usable digits before it and a number-word
\* matching there gets the value and span of the longest such word; one
\* that gets no quantity from tiers 1 to 3 (nothing before it, and what is
\* returned is not a run of digits) and has a number-word matching at tier
\* 4 gets the longest such word.
C21_LongestWins ==
  (pc = "body" /\ orderMap' # orderMap) =>
    LET b == digitsBeforeItem(text, match)
        digitsWin == b.start >= 0 /\ b.quantity > 0 /\ isUnused(usedRanges, b.start, b.end)
    IN  /\ (~ digitsWin /\ wordsBefore(text, match.index, usedRanges) # {}) =>
             longestOf(wordsBefore(text, match.index, usedRanges), lastQty',
                       [i \in DOMAIN tamilNumberWords |-> wordHitBefore(i, text, match.index)])
        /\ (~ digitsWin /\ wordsBefore(text, match.index, usedRanges) = {}
              /\ ~ (lastQty'.start >= 0
                      /\ slice(text, lastQty'.start, lastQty'.end) = digits(lastQty'.quantity))
              /\ wordsAfter(text, match.index, usedRanges) # {}) =>
             longestOf(wordsAfter(text, match.index, usedRanges), lastQty',
                       [i \in DOMAIN tamilNumberWords |-> wordHitAfter(i, text, match.index)])

----------------------------------------------------------------------------
(* Termination of a parse call.                                            *)

\* The number of patterns in the table of copy v.
RECURSIVE patternsFrom(_, _)
patternsFrom(table, a) ==
  IF a > Len(table) THEN 0 ELSE Len(table[a].pats) + patternsFrom(table, a + 1)
tableSize(v) == patternsFrom(getSynonymPatterns(v), 1)

\* Every match exec returns is not empty and leaves lastIndex at its end; a
\* further match of the same pattern starts at or after the end of the one
\* before it, whether that one was counted or skipped; and the body of the
\* loop, skipping or counting, leaves lastIndex alone.
C22_ScanAdvances ==
  /\ pc' = "body" =>
       /\ match'.index >= 0 /\ match'.end > match'.index
       /\ lastIndex' = match'.end
       /\ (pc = "exec" /\ match.index >= 0 /\ aliasIdx' = aliasIdx /\ patIdx' = patIdx) =>
            (match'.index >= match.end /\ lastIndex' > lastIndex)
  /\ pc = "body" => (pc' = "exec" /\ lastIndex' = lastIndex /\ match' = match)

\* The counted matches of a call are at most text length times table size.
C22_CountBounded == counted <= Len(text) * tableSize(variant)

\* A call that has started finishes.
C22_CallReturns == (pc # "done") ~> (pc = "done")

\* C22. Termination: parseOrderWithFuzzyMap returns for every input and
\* catalog; the repeated scan of a pattern moves strictly past every match,
\* skipped ones included, so no pattern is scanned for ever, and the number
\* of counted matches is at most text length times table size.
C22_Termination ==
  [][C22_ScanAdvances]_vars /\ [] C22_CountBounded /\ C22_CallReturns

\* "2 kothu parotta": the parotta match is skipped for its qualifier, the
\* scan has moved past it and the call has returned with two counted matches.
C22_ReturnedAfterSkip ==
  /\ pc = "done"
  /\ text = before(digits(2), WKothuParotta)
  /\ lastIndex = 0
  /\ counted >= 1
  /\ prev = NoCall

----------------------------------------------------------------------------
(* The normalizers.                                                        *)

\* The result has no zero-width character, no punctuation, no white space
\* at either end and no two white-space characters in a row.
Clean(s) ==
  /\ \A i \in DOMAIN s : s[i] \notin ZeroWidth \cup Punctuation
  /\ s # <<>> => s[1] \notin WhiteSpace /\ s[Len(s)] \notin WhiteSpace
  /\ \A i \in 1 .. Len(s) - 1 : ~ (s[i] \in WhiteSpace /\ s[i + 1] \in WhiteSpace)

\* What either normalizer returns for a string is clean.
C23_StringsCleaned ==
  (pc \in {"normalized", "normalizedTamil"} /\ input.type = "string") =>
    (text # TypeErrorThrown /\ Clean(text))

\* C23. Text normalizer: for a string the result has no zero-width
\* character, no punctuation, no white space at either end and no run of
\* white space; for the empty string and for a value that is no string
\* (null, undefined, a number, an object) preprocessText and
\* preprocessTamilText both return the empty string and throw nothing.
C23_TextNormalizer ==
  pc \in {"normalized", "normalizedTamil"} =>
    /\ input.type = "string" => (text # TypeErrorThrown /\ Clean(text))
    /\ (input.type # "string" \/ input.chars = <<>>) => text = <<>>

----------------------------------------------------------------------------
(* The in-memory handler generateBillFromVoice.                            *)

\* The requests answered with 201 and a bill.
Billed == { r \in RequestIds : requests[r].responses = <<201>> }

\* The sum of the quantities of the lines whose id is that of entry cat.
RECURSIVE qtyOfEntry(_, _)
qtyOfEntry(lines, cat) ==
  IF Len(lines) = 0 THEN 0
  ELSE (IF byId(Head(lines).id) = cat THEN Head(lines).qty ELSE 0)
         + qtyOfEntry(Tail(lines), cat)

\* The item is the line of one menu entry: its name and price, the summed
\* quantity of the LLM lines with that entry's id, at least 1, and the
\* total price of that many.
itemOfEntry(it, lines) ==
  \E cat \in DOMAIN MENU_CATALOG :
    /\ it.itemName = DEFAULT_MENU_ITEMS[cat].name
    /\ it.unitPrice = DEFAULT_MENU_ITEMS[cat].price
    /\ it.quantity = qtyOfEntry(lines, cat)
    /\ it.quantity \in Nat /\ it.quantity >= 1
    /\ it.totalPrice = it.unitPrice * it.quantity

\* C24. Menu bill totals are computed in code: in every 201 response of
\* generateBillFromVoice each item has the menu price of its entry as
\* unitPrice and unitPrice x quantity as totalPrice, the subtotal is the
\* sum of the items' totals, tax is 0 and total is the subtotal; the LLM
\* lines with one menu id are summed into one item, lines with an id no
\* entry has are ignored, and every quantity is a whole number >= 1.
C24_TotalsComputedInCode ==
  \A r \in Billed :
    LET bill == requests[r].bill[1]
        lines == requests[r].parsed.lines
    IN  /\ \A i \in DOMAIN bill.items : itemOfEntry(bill.items[i], lines)
        /\ \A i, j \in DOMAIN bill.items :
             bill.items[i].itemName = bill.items[j].itemName => i = j
        /\ \A k \in DOMAIN lines :
             byId(lines[k].id) > 0 =>
               \E i \in DOMAIN bill.items :
                 bill.items[i].itemName = MENU_CATALOG[byId(lines[k].id)].name
        /\ Len(bill.items) <= Cardinality({ byId(lines[k].id) : k \in DOMAIN lines } \ {0})
        /\ bill.subtotal = sumTotalPrice(bill.items)
        /\ bill.tax = 0
        /\ bill.total = bill.subtotal

\* The LLM wrote M0 twice, with 2 and, the id between spaces, with 1.5 for
\* the quantity: the bill has one line, three Plain Dosa.
C24_TwoLinesOneItem ==
  \E r \in Billed :
    /\ Len(requests[r].parsed.lines) = 2
    /\ requests[r].parsed.lines[1].id = requests[r].parsed.lines[2].id
    /\ requests[r].parsed.lines[1].qty # requests[r].parsed.lines[2].qty
    /\ Len(requests[r].bill[1].items) = 1
    /\ requests[r].bill[1].items[1].quantity = 3
    /\ requests[r].bill[1].total = 3 * ItemPlainDosa.price

----------------------------------------------------------------------------
\* No null result is in the cache.
C25_NoNullStored == \A i \in DOMAIN LLM_CACHE : ~ LLM_CACHE[i].parsed.isNull

\* The first stretch of a request with a usable voiceInput: when its key is
\* in the cache it is answered from the entry and no LLM call is made; when
\* it is not, and the process has its API key, the LLM is called for it.
C25_HitsAnswered ==
  \A r \in RequestIds :
    (requests[r].pc = "received" /\ requests'[r].pc # "received"
       /\ ~ noVoiceInput(requests[r].voiceInput)) =>
      LET hit == cacheGet(LLM_CACHE, cacheKeyFromInput(requests[r].voiceInput))
      IN  /\ hit > 0 =>
               /\ llmCalls' = llmCalls
               /\ requests'[r].pc = "sent"
               /\ requests'[r].parsed = LLM_CACHE[hit].parsed
          /\ (hit = 0 /\ genAI) =>
               /\ llmCalls' = Append(llmCalls, cacheKeyFromInput(requests[r].voiceInput))
               /\ requests'[r].pc = "awaiting"

\* No entry leaves the cache.
C25_NotEvicted ==
  \A i \in DOMAIN LLM_CACHE :
    i \in DOMAIN LLM_CACHE' /\ LLM_CACHE'[i].key = LLM_CACHE[i].key

\* No entry gets another value.
C25_NotOverwritten ==
  \A i \in DOMAIN LLM_CACHE :
    i \in DOMAIN LLM_CACHE' => LLM_CACHE'[i].parsed = LLM_CACHE[i].parsed

\* What holds of the cache: hits are answered without a call, misses call
\* the LLM, nulls are not stored and no entry is evicted.
C25_HitsNullsEvictions ==
  [] C25_NoNullStored /\ [][C25_HitsAnswered /\ C25_NotEvicted]_vars

\* C25. LLM result cache: a request whose normalized, lower-cased input is
\* the key of an earlier request that got a non-null LLM parse is answered
\* from LLM_CACHE with no new LLM call; a null result is never stored, so a
\* later request with that key calls the LLM again; and no entry is ever
\* evicted or overwritten.
C25_LlmResultCache ==
  [] C25_NoNullStored
    /\ [][C25_HitsAnswered /\ C25_NotEvicted /\ C25_NotOverwritten]_vars


----------------------------------------------------------------------------
\* C26. A mention counts once: when the customer says one item with its
\* number in digits before it, 'N <mention>', the finished parse has counted
\* N for the alias of the mention, also when two or more patterns of the
\* alias's list match the mention; never N + 1.
C26_MentionCountedOnce ==
  (pc = "done" /\ Len(order) = 1 /\ order[1].qty >= 1 /\ order[1].chars[1] \in Digit
     /\ order[1].alias # <<>>) =>
    \E i \in DOMAIN orderMap :
      orderMap[i].key = order[1].alias /\ orderMap[i].quantity = order[1].qty

----------------------------------------------------------------------------
\* C27. No two lines of one call carry the same itemName, whatever the
\* catalog and the input: two matched alias keys never resolve to the same
\* catalog entry.
C27_OneLinePerItem ==
  \A i, j \in DOMAIN items : items[i].itemName = items[j].itemName => i = j

----------------------------------------------------------------------------
\* C28. A qualifier suppresses only the generic match it belongs to: when
\* the customer says a masala dosa and then a plain dosa with its own
\* number before it ("masala dosa 2 dosa"), the finished parse has the
\* Masala Dosa line and a Plain Dosa line with that number.
C28_QualifierIsLocal ==
  (pc = "done" /\ Len(order) = 2
     /\ order[1].alias = KeyMasalaDosa
     /\ order[2].alias = KeyPlainDosa /\ order[2].chars[1] \in Digit) =>
    /\ linesNamed(items, ItemMasalaDosa.name) # {}
    /\ \E i \in linesNamed(items, ItemPlainDosa.name) : items[i].quantity = order[2].qty

----------------------------------------------------------------------------
\* Every stored bill and every bill sent with 201 has an item, and a request
\* whose lines all name no menu entry is answered 422.
C29_NoEmptyBill ==
  /\ \A i \in DOMAIN BILLS : Len(BILLS[i].items) >= 1
  /\ \A r \in RequestIds :
       (requests[r].pc = "sent" /\ requests[r].responses # <<400>>
          /\ requests[r].responses # <<500>>
          /\ \A k \in DOMAIN requests[r].parsed.lines :
               byId(requests[r].parsed.lines[k].id) = 0) =>
         (requests[r].responses = <<422>> /\ requests[r].bill = <<>>)

\* BILLS changes with a 201 response only, by the bill sent put in front;
\* a 400, 422 or 500 response leaves it as it is.
C29_StoredOn201Only ==
  /\ BILLS' # BILLS =>
       \E r \in RequestIds :
         /\ requests[r].pc # "sent"
         /\ requests'[r].responses = <<201>>
         /\ BILLS' = requests'[r].bill \o BILLS
  /\ \A r \in RequestIds :
       (requests[r].pc # "sent" /\ requests'[r].pc = "sent") =>
         (requests'[r].responses = <<201>> <=> BILLS' # BILLS)

\* What holds of BILLS.
C29_BillsChangeOn201 == [][C29_StoredOn201Only]_vars

----------------------------------------------------------------------------
\* A request starts its LLM call while no other request waits for the
\* answer to a call with the same cache key.
C30_NoCallWhileInFlight ==
  \A r \in RequestIds :
    (requests[r].pc = "received" /\ requests'[r].pc = "awaiting") =>
      ~ \E q \in RequestIds \ {r} :
          /\ requests[q].pc = "awaiting"
          /\ requests[q].key = requests'[r].key

\* C30. Under any interleaving of concurrent generateBillFromVoice requests
\* whose inputs share one cache key the LLM is invoked at most once for the
\* key when its first invocation returns a parse: no request starts an LLM
\* call for a key while another request's call for that key is in flight.
C30_OneCallPerKey == [][C30_NoCallWhileInFlight]_vars
====
